---- MODULE Spec2Model ----
(***************************************************************************)
(* Model of the natural-language command interpreter of the ledger app     *)
(* (utils/parsing: src/unnamed/part_000 lines 1-1212), of the voice hook   *)
(* that feeds it (useSpeechRecognition.processFinalTranscript:             *)
(* src/unnamed/part_002) and of the screen callback that receives its      *)
(* output (HomeScreen.handleTranscriptParsed: src/HomeScreen.tsx).  Four   *)
(* collaborators have specifications of their own at the end of the module *)
(* (UnitSpec, PriceSpec, OrderSpec, StorageSpec), and SessionSpec runs the *)
(* parser several times in a row; a specification keeps the parts of the   *)
(* state that are not its own at Idle (the parser: pc = "idle").           *)
(*                                                                         *)
(* Representation.  An utterance is a sequence of tokens: the words of the *)
(* text in order, the text being whitespace-normalised (one blank between  *)
(* words, none at the ends; a comma is a token of its own).  Every regular *)
(* expression of the source is translated to the predicate on token        *)
(* sequences that it decides on such texts; where a pattern has no word    *)
(* boundary (String.includes, or a regex without \b) the translation uses  *)
(* the substring tables below.  Numbers are integers counting hundredths   *)
(* (2 is 200, 1.5 is 150, Rs 0.25 is 25); a product of two numbers counts  *)
(* ten-thousandths.                                                        *)
(***************************************************************************)
EXTENDS Integers, Sequences, FiniteSets, TLC

VARIABLES
    text,          \* the utterance handed to the entry point
    caller,        \* entry point: "parseEnhanced" or "voice" (processFinalTranscript)
    quickCapture,  \* settings.quickCapture
    clock,         \* value of new Date() during the call
    pc,            \* "start", the await the call is suspended at, or "done"
    items,         \* the items whose prices are being looked up
    lookups,       \* per item: state of its lookupPrice promise
    enriched,      \* what parseSentenceWithPriceLookup resolved to (<<>> before)
    result,        \* ParsedResult the parser call resolved to (<<>> before)
    ui,            \* what the screen did with the parsed transcript
    unitCall,      \* a call of normalizeUnit / extractUnit and what it returned
    priceCall,     \* a call of sqliteStorage.lookupPrice and how it settled
    orderDb,       \* the rows of one order in the orders and order_items tables
    storage,       \* storage/index: storageInstance, the getStorage calls, App
    session        \* the price store and the earlier parser calls of one session

parserVars == <<text, caller, quickCapture, clock, pc, items, lookups, enriched, result, ui>>
vars == <<text, caller, quickCapture, clock, pc, items, lookups, enriched, result, ui,
          unitCall, priceCall, orderDb, storage, session>>

\* the value of a part of the state that the specification at hand leaves alone
Idle == [pc |-> "idle"]

(***************************************************************************)
(* Bounds of the model.                                                    *)
(***************************************************************************)
\* most item chunks in one utterance
MaxItems == 2
\* most rows one order ever has in order_items (ids are never reused)
MaxOrderItems == 3
\* most presses of Retry on the start-up error screen
MaxRetries == 2
\* most parser calls of one session
MaxCalls == 3

(***************************************************************************)
(* Lexical tables.                                                         *)
(***************************************************************************)
\* String.toLowerCase on a token
Lower(t) ==
    CASE t = "Credit" -> "credit"
      [] t = "Sales"  -> "sales"
      [] t = "Priya"  -> "priya"
      [] t = "Rs"     -> "rs"
      [] t = "Rice"   -> "rice"
      [] t = "Basmati" -> "basmati"
      [] OTHER        -> t

\* word.charAt(0).toUpperCase() + word.slice(1).toLowerCase(), on a token
TitleWord(t) ==
    LET l == Lower(t) IN
    CASE l = "credit" -> "Credit"
      [] l = "sale"   -> "Sale"
      [] l = "sales"  -> "Sales"
      [] l = "paid"   -> "Paid"
      [] l = "rs"     -> "Rs"
      [] l = "for"    -> "For"
      [] l = "by"     -> "By"
      [] l = "and"    -> "And"
      [] l = "order"  -> "Order"
      [] l = "price"  -> "Price"
      [] l = "rice"   -> "Rice"
      [] l = "wheat"  -> "Wheat"
      [] l = "priya"  -> "Priya"
      [] l = "five"   -> "Five"
      [] l = "kg"     -> "Kg"
      [] l = "sold"   -> "Sold"
      [] l = "bought" -> "Bought"
      [] l = "g"      -> "G"
      [] OTHER        -> l

\* tokens that are numerals /^\d+(\.\d+)?$/, and parseFloat of each (hundredths)
NumToks == {"0", "2", "20", "1.5", "0.25"}
IsNum(t) == t \in NumToks
NumVal(t) ==
    CASE t = "0"    -> 0
      [] t = "2"    -> 200
      [] t = "20"   -> 2000
      [] t = "1.5"  -> 150
      [] t = "0.25" -> 25
      [] OTHER      -> 0

\* tokens made of punctuation only (/[^\w\s]/)
PunctToks == {","}
\* tokens matching /^[a-zA-Z]+$/
IsAlpha(t) == ~IsNum(t) /\ t \notin PunctToks
\* number of characters of a token, as far as the code compares it (1, 2 or more)
CharLen(t) ==
    CASE t \in {"0", "2", ",", "g"} -> 1
      [] t \in {"20", "rs", "Rs", "kg", "by"} -> 2
      [] OTHER -> 3

\* t.includes(s): s occurs in token t
Includes(t, s) == t = s \/ <<t, s>> \in {<<"sales", "sale">>, <<"price", "rice">>}
\* t ends with s / t starts with s (regex alternatives that carry no \b)
EndsWith(t, s) == t = s \/ <<t, s>> \in {<<"wheat", "at">>, <<"price", "rice">>}
StartsWith(t, s) == t = s \/ <<t, s>> \in {<<"sales", "sale">>}

KNOWN_UNITS == <<
    "kg", "g", "gram", "grams", "kilo", "kilos", "kilogram", "kilograms",
    "l", "liter", "liters", "litre", "litres", "ml", "milliliter", "milliliters",
    "packet", "packets", "pack", "packs", "box", "boxes", "item", "items",
    "dozen", "dozens", "piece", "pieces", "pc", "pcs",
    "bottle", "bottles", "btl", "can", "cans",
    "bag", "bags", "sack", "sacks" >>

KnownUnitSet == {KNOWN_UNITS[i] : i \in 1..Len(KNOWN_UNITS)}

ORDER_KEYWORDS == {
    "order", "orders", "ordered", "ordering",
    "deliver", "delivery", "delivers", "delivering",
    "book", "booking", "booked", "books",
    "reserve", "reservation", "reserved", "reserves" }

\* the one-word keys of SPECIAL_CASE_ITEMS, in order ('parle g', 'parle-g' and
\* 'nuti g' are handled in containsSpecialBrand)
SPECIAL_CASE_ITEMS == <<
    [key |-> "maggi", name |-> "Maggi"],
    [key |-> "lays", name |-> "Lays"],
    [key |-> "amul", name |-> "Amul"],
    [key |-> "tata", name |-> "Tata"],
    [key |-> "britannia", name |-> "Britannia"] >>

\* the words of (rs\.?|rupees?|<rupee sign>); the rupee sign and "rs." are not in the vocabulary
CurrencyWords == {"rs", "rupee", "rupees"}

(***************************************************************************)
(* Sequence helpers.                                                       *)
(***************************************************************************)
LowerText(T) == [i \in 1..Len(T) |-> Lower(T[i])]
TitleCase(T) == [i \in 1..Len(T) |-> TitleWord(T[i])]
Drop(T, n) == SubSeq(T, n + 1, Len(T))
Without(T, S) == SelectSeq(T, LAMBDA t : t \notin S)
Min(S) == CHOOSE x \in S : \A y \in S : x <= y
ToSet(T) == {T[i] : i \in 1..Len(T)}

\* the regex split of a text into chunks.  A comma always delimits; the word
\* "and" delimits when a blank is left on either side of it.  mode "sentence"
\* is /,| and /, "order" is /\s+and\s+|,\s*/ (the comma eats the blank after
\* it), "price" is /\s+and\s+/i (no comma).
RECURSIVE DelimAt(_, _, _)
DelimAt(T, i, mode) ==
    IF T[i] = ","
    THEN mode # "price"
    ELSE /\ Lower(T[i]) = "and"
         /\ (mode = "price" \/ T[i] = "and")
         /\ 1 < i /\ i < Len(T)
         /\ ~(/\ DelimAt(T, i - 1, mode)
              /\ (T[i - 1] # "," \/ mode = "order"))

RECURSIVE SplitFrom(_, _, _)
SplitFrom(T, D, start) ==
    LET next == {i \in D : i >= start} IN
    IF next = {}
    THEN << SubSeq(T, start, Len(T)) >>
    ELSE << SubSeq(T, start, Min(next) - 1) >> \o SplitFrom(T, D, Min(next) + 1)

Split(T, mode) == SplitFrom(T, {i \in 1..Len(T) : DelimAt(T, i, mode)}, 1)

(***************************************************************************)
(* Lexical helpers (part_000 lines 114-417).                               *)
(***************************************************************************)
\* a normalisation one of whose spellings is mapped to another spelling of the table
UnitOneStep(unit) ==
    LET u == Lower(unit) IN
    IF u \in {"kgs"} THEN "kilos"
    ELSE IF u \in {"kilos", "kilograms"} THEN "kg"
    ELSE IF u \in {"pcs", "pieces", "piece", "pc"} THEN "piece"
    ELSE u

normalizeUnit(unit) ==
    LET u == Lower(unit) IN
    IF u \in {"kgs", "kilos", "kilograms"} THEN "kg"
    ELSE IF u \in {"grams", "gram", "gm", "gms"} THEN "g"
    ELSE IF u \in {"litres", "litre", "ltr", "ltrs", "liters", "liter"} THEN "l"
    ELSE IF u \in {"milliliters", "milliliter", "mls"} THEN "ml"
    ELSE IF u \in {"pcs", "pieces", "piece", "pc"} THEN "piece"
    ELSE IF u \in {"packets", "pack", "packs"} THEN "packet"
    ELSE IF u \in {"bottles", "btl", "btls"} THEN "bottle"
    ELSE IF u \in {"dozens"} THEN "dozen"
    ELSE u

\* ORDER_KEYWORDS.some(keyword => lowerText.includes(keyword))
isOrderCommand(T) ==
    \E i \in 1..Len(T) : \E kw \in ORDER_KEYWORDS : Includes(Lower(T[i]), kw)

\* /^credit\s+sales?\s+/i and /^credit\s+paid\s+/i on the trimmed text
startsWithCreditSales(T) ==
    Len(T) >= 3 /\ Lower(T[1]) = "credit" /\ Lower(T[2]) \in {"sale", "sales"}
startsWithCreditPaid(T) ==
    Len(T) >= 3 /\ Lower(T[1]) = "credit" /\ Lower(T[2]) = "paid"

isCreditCommand(T) == startsWithCreditSales(T) \/ startsWithCreditPaid(T)

\* 'sale' | 'payment' | null (null is "")
getCreditCommandType(T) ==
    IF startsWithCreditSales(T) THEN "sale"
    ELSE IF startsWithCreditPaid(T) THEN "payment"
    ELSE ""

excludeWords == {
    "one", "two", "three", "four", "five", "six", "seven", "eight", "nine", "ten",
    "kg", "gram", "grams", "packet", "packets", "piece", "pieces", "liter", "liters",
    "rice", "wheat", "sugar", "oil", "milk", "bread", "biscuit", "biscuits" }

\* the first match of /\bfor\s+([a-zA-Z][a-zA-Z\s]*?)(?:\s*$)/ in lowerText:
\* the leftmost word "for" after which only letters follow to the end
ForMatch(L) ==
    {i \in 1..Len(L) - 1 : L[i] = "for" /\ \A j \in i + 1..Len(L) : IsAlpha(L[j])}

\* a customer extractor without the exclusion list and the one-letter test
AnyCustomerName(T) ==
    IF ForMatch(LowerText(T)) = {} THEN << >>
    ELSE TitleCase(Drop(LowerText(T), Min(ForMatch(LowerText(T)))))

\* the customer as a token sequence; undefined is <<>>
extractCustomerName(T) ==
    LET L == LowerText(T) IN
    IF ForMatch(L) = {} THEN << >>
    ELSE LET customerName == Drop(L, Min(ForMatch(L))) IN
         IF Len(customerName) = 1 /\ customerName[1] \in excludeWords THEN << >>
         ELSE IF Len(customerName) = 1 /\ CharLen(customerName[1]) = 1 THEN << >>
         ELSE TitleCase(customerName)

\* a direction test that looks at the verbs of sale before the verbs of purchase
CashInFirst(T) ==
    LET L == LowerText(T) IN
    IF \E i \in 1..Len(L) : L[i] \in {"sold", "sell", "selling", "sale", "sales",
                                       "income", "earned", "received", "got"}
    THEN "cash-in"
    ELSE IF \/ \E i \in 1..Len(L) : L[i] \in {"bought", "buy", "buying", "purchased",
                                               "purchase", "purchasing", "spent", "expense"}
            \/ \E i \in 1..Len(L) - 1 : L[i] \in {"paid", "pay", "paying", "payment"}
    THEN "cash-out"
    ELSE "cash-in"

determineTransactionType(T) ==
    LET L == LowerText(T)
        n == Len(L)
        word(S) == \E i \in 1..n : L[i] \in S
        pair(S, R) == \E i \in 1..n - 1 : L[i] \in S /\ \E r \in R : StartsWith(L[i + 1], r)
        cashOut ==
            \/ word({"bought", "buy", "buying", "purchased", "purchase", "purchasing"})
            \/ word({"spent", "spend", "spending", "expense", "expenses", "cost", "costs"})
            \/ \E i \in 1..n - 1 :
                  /\ L[i] \in {"paid", "pay", "paying", "payment"}
                  /\ ~(/\ L[i + 1] \in {"to", "from"}
                       /\ i + 2 <= n
                       /\ StartsWith(L[i + 2], "customer"))
            \/ word({"invested", "investment", "supplies", "supply"})
            \/ word({"bill", "bills", "invoice", "invoices"})
        cashIn ==
            \/ word({"sold", "sell", "selling", "sale", "sales"})
            \/ word({"income", "earned", "received", "got"})
            \/ pair({"customer", "client"}, {"bought", "purchased"})
            \/ pair({"made", "earned"}, {"money", "profit", "rs", "rupees"})
        hasPriceIndicators ==
            \E i \in 1..n : IsNum(L[i]) \/ \E c \in CurrencyWords : StartsWith(L[i], c)
    IN  IF n = 0 THEN "cash-in"
        ELSE IF cashOut THEN "cash-out"
        ELSE IF cashIn THEN "cash-in"
        ELSE IF hasPriceIndicators THEN "cash-in"
        ELSE "cash-in"

EndsCurrency(t) == \E c \in CurrencyWords : EndsWith(Lower(t), c)
StartsCurrency(t) == \E c \in CurrencyWords : StartsWith(Lower(t), c)

\* the number captured by the first match of each of pricePatterns, per pattern
\* (a set that is empty when the pattern does not match)
pricePattern1(T) == {i \in 1..Len(T) - 1 : EndsCurrency(T[i]) /\ IsNum(T[i + 1])}
pricePattern2(T) == {i \in 1..Len(T) - 1 : IsNum(T[i]) /\ StartsCurrency(T[i + 1])}
pricePattern3(T) ==
    {i \in 2..Len(T) - 1 :
        /\ IsNum(T[i])
        /\ \E w \in {"at", "for"} : EndsWith(Lower(T[i - 1]), w)
        /\ LET eachAt(j) ==
                   /\ j <= Len(T)
                   /\ \/ \E w \in {"each", "per"} : StartsWith(Lower(T[j]), w)
                      \/ /\ Lower(T[j]) = "a"
                         /\ j + 1 <= Len(T)
                         /\ StartsWith(Lower(T[j + 1]), "piece")
           IN  eachAt(i + 1) \/ (Lower(T[i + 1]) \in CurrencyWords /\ eachAt(i + 2))}
pricePattern4(T) ==
    {i \in 2..Len(T) :
        /\ IsNum(T[i])
        /\ LET costAt(j) == j >= 1 /\ \E w \in {"cost", "costs", "price"} : EndsWith(Lower(T[j]), w)
           IN  costAt(i - 1) \/ (Lower(T[i - 1]) \in CurrencyWords /\ costAt(i - 2))}
pricePattern5(T) == pricePattern2(T)

\* number | null; null is 0 (no positive price is 0)
extractPrice(T) ==
    LET first(S) == IF S = {} THEN 0 ELSE NumVal(T[Min(S)])
        p1 == first({i + 1 : i \in pricePattern1(T)})
        p2 == first(pricePattern2(T))
        p3 == first(pricePattern3(T))
        p4 == first(pricePattern4(T))
        p5 == first(pricePattern5(T))
    IN  IF p1 > 0 THEN p1
        ELSE IF p2 > 0 THEN p2
        ELSE IF p3 > 0 THEN p3
        ELSE IF p4 > 0 THEN p4
        ELSE IF p5 > 0 THEN p5
        ELSE 0

\* the unit list of the first quantity pattern
QuantityUnits == {
    "kg", "g", "gram", "grams", "kilo", "kilos", "kilogram", "kilograms",
    "l", "liter", "liters", "litre", "litres", "ml",
    "packet", "packets", "pack", "packs", "piece", "pieces", "pc", "pcs",
    "box", "boxes", "bottle", "bottles", "can", "cans", "bag", "bags",
    "dozen", "dozens" }

\* a quantity taken from the leading number without the test for > 0
LeadingNumber(T) == IF Len(T) >= 1 /\ IsNum(T[1]) THEN NumVal(T[1]) ELSE 100

extractQuantity(T) ==
    LET first(S) == IF S = {} THEN 0 ELSE NumVal(T[Min(S)])
        q1 == first({i \in 1..Len(T) - 1 : IsNum(T[i]) /\ Lower(T[i + 1]) \in QuantityUnits})
        q2 == first({i \in {1} : Len(T) >= 1 /\ IsNum(T[i])})
        q3 == first({i \in 1..Len(T) - 1 : IsNum(T[i]) /\ Lower(T[i + 1]) = "of"})
    IN  IF q1 > 0 THEN q1
        ELSE IF q2 > 0 THEN q2
        ELSE IF q3 > 0 THEN q3
        ELSE 100

\* /parle[\s-]*g\b/
ParleG(L) == \E i \in 1..Len(L) - 1 : EndsWith(L[i], "parle") /\ L[i + 1] = "g"

\* the brand as a token sequence; null is <<>>.  The keys are tried in the
\* order of SPECIAL_CASE_ITEMS: 'parle g', the one-word keys, then 'nuti g'.
containsSpecialBrand(T) ==
    LET L == LowerText(T)
        twoWords(a, b) ==
            \E i \in 1..Len(L) - 1 : EndsWith(L[i], a) /\ StartsWith(L[i + 1], b)
        hits == {k \in 1..Len(SPECIAL_CASE_ITEMS) :
                    \E i \in 1..Len(L) : Includes(L[i], SPECIAL_CASE_ITEMS[k].key)}
    IN  IF ParleG(L) \/ twoWords("parle", "g") THEN << "Parle", "G" >>
        ELSE IF hits # {} THEN << SPECIAL_CASE_ITEMS[Min(hits)].name >>
        ELSE IF twoWords("nuti", "g") THEN << "Nuti", "G" >>
        ELSE << >>

\* the unit; null and '' are both ""
extractUnit(T) ==
    LET L == LowerText(T)
        hits == {k \in 1..Len(KNOWN_UNITS) : KNOWN_UNITS[k] \in ToSet(L)}
    IN  IF ParleG(L)
        THEN IF \E i \in 1..Len(L) : \E u \in {"packet", "packets", "pack", "packs"} :
                    Includes(L[i], u)
             THEN "packet" ELSE ""
        ELSE IF hits = {} THEN ""
        ELSE normalizeUnit(KNOWN_UNITS[Min(hits)])

(***************************************************************************)
(* Item extractor and single-item parser (part_000 lines 419-593).         *)
(***************************************************************************)
\* the words the cleaning of extractItem deletes, and the unit forms `${unit}s?`
CleanWords ==
    {"sold", "sell", "sale", "bought", "buy", "purchased", "expense", "spent", "income", "earned"}
    \cup {"credit", "paid", "payment", "cash", "money"}
    \cup {"to", "from", "by", "for", "with", "of", "in", "on", "at", "the", "a", "an"}
    \cup {"rs", "rupee", "rupees", "each", "per"}
UnitForms == KnownUnitSet \cup {"kgs", "gs", "ls", "mls", "boxs", "btls", "pcss"}
FallbackStopWords ==
    {"sold", "sell", "sale", "bought", "buy", "purchased", "expense", "spent", "for", "from", "the"}

\* [err, item]: err is "" when an item name is returned, else the code of the
\* ParsingError thrown
extractItem(T) ==
    LET L == LowerText(T)
        specialBrand == containsSpecialBrand(T)
        has(s) == \E i \in 1..Len(L) : Includes(L[i], s)
        cleanedText == SelectSeq(L, LAMBDA t : t \notin CleanWords /\ ~IsNum(t) /\ t \notin PunctToks)
        itemText == Without(cleanedText, UnitForms)
        tooShort == Len(itemText) = 0 \/ (Len(itemText) = 1 /\ CharLen(itemText[1]) < 2)
        words == SelectSeq(T, LAMBDA w :
                     /\ w \notin PunctToks
                     /\ CharLen(w) > 2
                     /\ Lower(w) \notin FallbackStopWords
                     /\ ~IsNum(w)
                     /\ Lower(w) \notin KnownUnitSet)
    IN  IF Len(T) = 0 THEN [err |-> "EMPTY_INPUT", item |-> << >>]
        ELSE IF specialBrand # << >>
        THEN [err |-> "",
              item |-> IF has("biscuit") THEN specialBrand \o << "Biscuits" >>
                       ELSE IF has("noodle") THEN specialBrand \o << "Noodles" >>
                       ELSE IF has("chips") THEN specialBrand \o << "Chips" >>
                       ELSE specialBrand]
        ELSE IF ~tooShort THEN [err |-> "", item |-> TitleCase(itemText)]
        ELSE IF Len(words) > 0 THEN [err |-> "", item |-> TitleCase(words)]
        ELSE [err |-> "UNKNOWN_ITEM", item |-> << >>]

\* a total that leaves the quantity out
PriceAsTotal(price, qty) == price * 100

\* total = price * qty (ten-thousandths)
LineTotal(price, qty) == price * qty

\* the whole-chunk name tried when extractItem throws UNKNOWN_ITEM
ChunkName(T) ==
    Without(LowerText(T),
            {"sold", "sell", "sale", "bought", "buy", "purchased", "expense", "spent"}
            \cup {"rs", "rupee", "rupees", "each", "per", "for", "at"})

\* a catch that answers another code than the one extractItem throws
CaughtEmptyInput == "EMPTY_INPUT"

\* the ParsingError of extractItem that parseSingleItem catches and answers
\* with the whole-chunk name
CaughtCode == "UNKNOWN_ITEM"

\* the name and unit of the entry: the special brand, the extracted item, or
\* the whole-chunk name when extractItem threw the caught error
NamedItem(chunk, specialBrand, ex, has_biscuit, has_packet) ==
    IF specialBrand # << >>
    THEN [ok |-> TRUE,
          item |-> IF has_biscuit THEN specialBrand \o << "Biscuits" >> ELSE specialBrand,
          unit |-> IF has_packet THEN "packet" ELSE ""]
    ELSE IF ex.err = ""
    THEN [ok |-> TRUE, item |-> ex.item, unit |-> extractUnit(chunk)]
    ELSE IF ex.err = CaughtCode /\ Len(ChunkName(chunk)) > 0
    THEN [ok |-> TRUE, item |-> TitleCase(ChunkName(chunk)), unit |-> extractUnit(chunk)]
    ELSE [ok |-> FALSE, item |-> << >>, unit |-> ""]

\* lines 566-592: the entry, or null when the item is missing
BuildEntry(chunk, now, named, price, qty) ==
    IF ~named.ok \/ Len(named.item) = 0 THEN << >>
    ELSE << [item |-> named.item, qty |-> qty, unit |-> named.unit, price |-> price,
             total |-> LineTotal(price, qty), type |-> determineTransactionType(chunk),
             source_text |-> chunk, transaction_date |-> now] >>

HasWord(chunk, s) == \E i \in 1..Len(chunk) : Includes(Lower(chunk[i]), s)

\* Partial<Entry> | null: <<entry>> or <<>>
parseSingleItem(chunk, now) ==
    IF Len(chunk) = 0 THEN << >>
    ELSE BuildEntry(chunk, now,
                    NamedItem(chunk, containsSpecialBrand(chunk), extractItem(chunk),
                              HasWord(chunk, "biscuit"), HasWord(chunk, "packet")),
                    extractPrice(chunk), extractQuantity(chunk))

(***************************************************************************)
(* Sentence splitter (part_000 lines 778-818).                             *)
(***************************************************************************)
\* a loop that stops after the first chunk
FirstChunkOnly(chunks, now) ==
    IF chunks = << >> THEN << >> ELSE parseSingleItem(Head(chunks), now)

\* the entries of the chunks that parse, in chunk order
RECURSIVE ParseChunks(_, _)
ParseChunks(chunks, now) ==
    IF chunks = << >> THEN << >>
    ELSE parseSingleItem(Head(chunks), now) \o ParseChunks(Tail(chunks), now)

\* a splitter that does not go back to the whole sentence when no chunk parses
NoLastResort(whole, results, nchunks) == IF nchunks <= 1 THEN whole ELSE results

\* lines 800-817: one chunk, or no chunk that parses, falls back to the whole
\* sentence as a single item
SentenceResults(whole, results, nchunks) ==
    IF nchunks <= 1 THEN whole
    ELSE IF Len(results) = 0 THEN whole
    ELSE results

SentenceChunks(raw, now, chunks) ==
    SentenceResults(parseSingleItem(raw, now), ParseChunks(chunks, now), Len(chunks))

parseSentence(raw, now) ==
    IF Len(raw) = 0 THEN << >>
    ELSE SentenceChunks(raw, now, Split(LowerText(raw), "sentence"))

(***************************************************************************)
(* ParsedResult (part_000 lines 8-43).  An optional field is a sequence of *)
(* length 0 (absent) or 1 (present).                                       *)
(***************************************************************************)
Warn(msg) == [msg |-> msg, names |-> << >>, prices |-> << >>]

Envelope(type, warnings, source) ==
    [type |-> type, entry |-> << >>, order |-> << >>, priceUpdates |-> << >>,
     credit |-> << >>, warnings |-> warnings, source_text |-> source,
     forceReview |-> << >>]

(***************************************************************************)
(* Price sentences (part_000 lines 890-953).                               *)
(***************************************************************************)
\* .replace(/price\s+of\s+/gi,'').replace(/cost\s+of\s+/gi,'').replace(/rate\s+of\s+/gi,'')
\* the word "of" and the word before it go when that word ends in price, cost
\* or rate and a blank follows "of"
RECURSIVE DropOfPhrases(_)
DropOfPhrases(T) ==
    IF Len(T) < 3 THEN T
    ELSE IF /\ Lower(T[2]) = "of"
            /\ \E w \in {"price", "cost", "rate"} : Lower(T[1]) = w
         THEN DropOfPhrases(Drop(T, 2))
         ELSE << T[1] >> \o DropOfPhrases(Tail(T))

PriceKeywords == {"price", "cost", "rate", "rupees", "rs"}

\* one part "rice 30": /^(.+?)\s+(\d+(?:\.\d{1,2})?)$/
PricePart(part) ==
    IF Len(part) >= 2 /\ IsNum(part[Len(part)])
    THEN << [item |-> TitleCase(SubSeq(part, 1, Len(part) - 1)),
             price |-> NumVal(part[Len(part)])] >>
    ELSE << >>

RECURSIVE PriceParts(_)
PriceParts(parts) ==
    IF parts = << >> THEN << >>
    ELSE PricePart(Head(parts)) \o PriceParts(Tail(parts))

parsePriceSentence(sentence) ==
    LET hasPriceKeyword ==
            \E i \in 1..Len(sentence) : \E kw \in PriceKeywords : Includes(Lower(sentence[i]), kw)
        cleanedSentence ==
            SelectSeq(DropOfPhrases(sentence),
                      LAMBDA t : Lower(t) \notin {"is", "are", "cost", "costs", "price", "prices",
                                                  "rupee", "rupees", "rs"})
    IN  IF Len(sentence) = 0 THEN << >>
        ELSE IF isCreditCommand(sentence) THEN << >>
        ELSE IF ~hasPriceKeyword THEN << >>
        ELSE PriceParts(Split(cleanedSentence, "price"))

(***************************************************************************)
(* Order parser (part_000 lines 599-704).                                  *)
(***************************************************************************)
\* itemText.replace(new RegExp(`\\bfor\\s+${customer}\\b`, 'gi'), ''): every
\* occurrence of the word "for" followed by the customer's words
RECURSIVE RemoveForCustomer(_, _)
RemoveForCustomer(T, customer) ==
    LET n == Len(customer) IN
    IF Len(T) < n + 1 THEN T
    ELSE IF T[1] = "for" /\ SubSeq(T, 2, n + 1) = customer
         THEN RemoveForCustomer(Drop(T, n + 1), customer)
         ELSE << T[1] >> \o RemoveForCustomer(Tail(T), customer)

OrderItem(e) ==
    [item |-> e.item, qty |-> e.qty,
     price |-> IF e.price = 0 THEN << >> ELSE << e.price >>,
     delivery_date |-> << >>]

\* lines 612-630: the text without order keywords and without "for NAME"
OrderItemText(noKeywords, customer) ==
    IF customer # << >>
    THEN RemoveForCustomer(noKeywords, LowerText(customer))
    ELSE noKeywords

\* lines 633-663: several chunks are parsed one by one, one chunk by parseSentence
OrderChunks(itemText, itemChunks, now) ==
    IF Len(itemChunks) > 1
    THEN ParseChunks(itemChunks, now)
    ELSE parseSentence(itemText, now)

OrderParsed(itemText, now) ==
    OrderChunks(itemText, SelectSeq(Split(itemText, "order"), LAMBDA c : Len(c) > 0), now)

\* an order result that skips the test for zero items
OrderUnchecked(T, customer, parsed) ==
    [Envelope("order", << >>, T) EXCEPT
        !.order = << [customer |-> IF customer # << >> THEN customer ELSE << "Walk-in" >>,
                      items |-> [i \in 1..Len(parsed) |-> OrderItem(parsed[i])]] >>]

OrderResult(T, customer, parsed) ==
    IF Len(parsed) = 0
    THEN Envelope("order", << Warn("Could not identify any items in the order") >>, T)
    ELSE [Envelope("order", << >>, T) EXCEPT
             !.order = << [customer |-> IF customer # << >> THEN customer ELSE << "Walk-in" >>,
                           items |-> [i \in 1..Len(parsed) |-> OrderItem(parsed[i])]] >>]

parseOrderCommand(T, now) ==
    IF Len(T) = 0 THEN Envelope("order", << Warn("Empty input text") >>, T)
    ELSE OrderResult(T, extractCustomerName(T),
                     OrderParsed(OrderItemText(Without(LowerText(T), ORDER_KEYWORDS),
                                               extractCustomerName(T)), now))

(***************************************************************************)
(* Price-lookup enrichment (part_000 lines 975-1027).  The state of one    *)
(* lookupPrice promise is [st, val]: "none" (not called), "pending",       *)
(* "thrown" (rejected), "null" (resolved with null) or "value" (resolved   *)
(* with the price val).                                                    *)
(***************************************************************************)
NotCalled == [st |-> "none", val |-> 0]
Pending == [st |-> "pending", val |-> 0]

\* a lookup rule that looks every item up
LookupAlways(item) == TRUE

\* a lookup rule that looks a price up in the first call of a session only
NeedsLookupOnce(item) == item.price = 0 /\ session.history = << >>

\* if (!finalPrice || finalPrice === 0): the items whose price is looked up
NeedsLookup(item) == item.price = 0

\* the promises right after items.map(async ...) has run: every lookup issued
IssueLookups(its) == [i \in 1..Len(its) |-> IF NeedsLookup(its[i]) THEN Pending ELSE NotCalled]

\* a lookup whose rejection is not caught
NeverCaught(lk) == FALSE

\* try { await lookupPrice(...) } catch (error) { console.warn(...) }
LookupCaught(lk) == lk.st = "thrown"

\* the price a settled lookup supplies, 0 when it supplies none
LookedUpPrice(lk) == IF lk.st = "value" /\ lk.val > 0 THEN lk.val ELSE 0

EnhancedEntry(item, lk) ==
    LET found == NeedsLookup(item) /\ LookedUpPrice(lk) > 0
        finalPrice == IF found THEN LookedUpPrice(lk) ELSE item.price
    IN  [item |-> item.item, qty |-> item.qty, unit |-> item.unit,
         price |-> finalPrice, total |-> LineTotal(finalPrice, item.qty),
         type |-> item.type, source_text |-> item.source_text,
         transaction_date |-> item.transaction_date,
         price_source |-> IF found THEN "auto-lookup" ELSE "parsed"]

ItemNames(es) == [i \in 1..Len(es) |-> es[i].item]
ItemPrices(es) == [i \in 1..Len(es) |-> es[i].price]

\* lines 1016-1019
NoPriceWarning(itemsWithoutPrices) ==
    IF Len(itemsWithoutPrices) > 0
    THEN << [msg |-> "No price found for", names |-> ItemNames(itemsWithoutPrices),
             prices |-> << >>] >>
    ELSE << >>

\* lines 1021-1024
AutoPopulatedWarning(autoLookedUpItems) ==
    IF Len(autoLookedUpItems) > 0
    THEN << [msg |-> "Auto-populated prices for", names |-> ItemNames(autoLookedUpItems),
             prices |-> ItemPrices(autoLookedUpItems)] >>
    ELSE << >>

LookupWarnings(enhancedEntries) ==
    NoPriceWarning(SelectSeq(enhancedEntries, LAMBDA e : e.price = 0))
    \o AutoPopulatedWarning(SelectSeq(enhancedEntries, LAMBDA e : e.price_source = "auto-lookup"))

Enhanced(enhancedEntries) ==
    [thrown |-> FALSE, entries |-> enhancedEntries, warnings |-> LookupWarnings(enhancedEntries)]

\* an enrichment that hands the lookups to the items in the opposite order
EnrichCrossed(its, lk) ==
    IF Len(its) = 0
    THEN [thrown |-> FALSE, entries |-> << >>,
          warnings |-> << Warn("Could not parse any items from input") >>]
    ELSE Enhanced([i \in 1..Len(its) |-> EnhancedEntry(its[i], lk[Len(its) + 1 - i])])

\* lines 980-1026 for the items parseSentence produced
EnrichItems(its, lk) ==
    IF Len(its) = 0
    THEN [thrown |-> FALSE, entries |-> << >>,
          warnings |-> << Warn("Could not parse any items from input") >>]
    ELSE IF \E i \in 1..Len(its) : lk[i].st = "thrown" /\ ~LookupCaught(lk[i])
    THEN [thrown |-> TRUE, entries |-> << >>, warnings |-> << >>]
    ELSE Enhanced([i \in 1..Len(its) |-> EnhancedEntry(its[i], lk[i])])

\* [thrown, entries, warnings]: thrown is TRUE when the promise rejects
parseSentenceWithPriceLookup(T, now, lk) == EnrichItems(parseSentence(T, now), lk)

(***************************************************************************)
(* Credit parser (part_000 lines 1032-1212).  The amount of a credit       *)
(* payload counts ten-thousandths, as an entry's total does.               *)
(***************************************************************************)
\* a payload that leaves the customer empty when none was extracted
NoCustomer == << >>

\* customer || 'Walk-in' (lines 1118, 1133 and 1204)
WalkIn == << "Walk-in" >>

\* itemText.replace(/\s+for\s+<customer>\s*$/i, ''): the trailing "for NAME",
\* when a word precedes it
StripCustomer(C, customer) ==
    LET k == Len(C) - Len(customer) IN
    IF /\ customer # << >>
       /\ k >= 2
       /\ Lower(C[k]) = "for"
       /\ LowerText(Drop(C, k)) = LowerText(customer)
    THEN SubSeq(C, 1, k - 1)
    ELSE C

\* the text parseCreditSale hands to parseSentenceWithPriceLookup
CreditSaleItemText(T) == StripCustomer(Drop(T, 2), extractCustomerName(T))

RECURSIVE SumTotals(_)
SumTotals(its) == IF its = << >> THEN 0 ELSE Head(its).total + SumTotals(Tail(its))

SaleItem(e) == [item |-> e.item, qty |-> e.qty, unit |-> e.unit, price |-> e.price, total |-> e.total]

\* a sale result that gives every sale the single-item shape of its first entry
SingleShapeAlways(T, customer, r, warnings) ==
    IF r.thrown \/ Len(r.entries) = 0
    THEN Envelope("transaction", warnings \o r.warnings, T)
    ELSE [Envelope("credit", warnings \o r.warnings, T) EXCEPT
             !.credit = << [type |-> "sale",
                            customer |-> IF customer # << >> THEN customer ELSE WalkIn,
                            single |-> << [item |-> r.entries[1].item, qty |-> r.entries[1].qty,
                                           unit |-> r.entries[1].unit, price |-> r.entries[1].price] >>,
                            items |-> << >>, amount |-> r.entries[1].total] >>]

\* lines 1093-1147
CreditSaleResult(T, customer, r, warnings) ==
    IF r.thrown
    THEN Envelope("transaction", warnings \o << Warn("Error parsing item details in credit sale") >>, T)
    ELSE IF Len(r.entries) = 0
    THEN Envelope("transaction",
                  warnings \o r.warnings \o << Warn("Could not parse item details from credit sale") >>, T)
    ELSE IF Len(r.entries) > 1
    THEN [Envelope("credit", warnings \o r.warnings, T) EXCEPT
             !.credit = << [type |-> "sale",
                            customer |-> IF customer # << >> THEN customer ELSE WalkIn,
                            single |-> << >>,
                            items |-> << [i \in 1..Len(r.entries) |-> SaleItem(r.entries[i])] >>,
                            amount |-> SumTotals(r.entries)] >>]
    ELSE [Envelope("credit", warnings \o r.warnings, T) EXCEPT
             !.credit = << [type |-> "sale",
                            customer |-> IF customer # << >> THEN customer ELSE WalkIn,
                            single |-> << [item |-> r.entries[1].item, qty |-> r.entries[1].qty,
                                           unit |-> r.entries[1].unit, price |-> r.entries[1].price] >>,
                            items |-> << >>, amount |-> r.entries[1].total] >>]

parseCreditSale(T, now, lk, warnings) ==
    CreditSaleResult(T, extractCustomerName(T),
                     parseSentenceWithPriceLookup(CreditSaleItemText(T), now, lk), warnings)

ByFromFor == {"by", "from", "for"}
AllAlpha(T, from) == \A j \in from..Len(T) : IsAlpha(T[j])

\* /(?:rs\.?|rupees?|<rupee sign>)\s*(\d+(?:\.\d+)?)\s+(?:by|from|for)\s+([a-zA-Z][a-zA-Z\s]*?)$/i
\* the positions of the amount in a match (at most one)
paymentPattern1(C) ==
    {i \in 2..Len(C) - 2 :
        /\ EndsCurrency(C[i - 1]) /\ IsNum(C[i])
        /\ Lower(C[i + 1]) \in ByFromFor /\ AllAlpha(C, i + 2)}
\* /^(\d+(?:\.\d+)?)\s+(?:by|from|for)\s+([a-zA-Z][a-zA-Z\s]*?)$/i
paymentPattern2(C) ==
    {i \in {1} : Len(C) >= 3 /\ IsNum(C[1]) /\ Lower(C[2]) \in ByFromFor /\ AllAlpha(C, 3)}
\* /(?:rs\.?|rupees?|<rupee sign>)?\s*(\d+(?:\.\d+)?)\.?$/i
paymentPattern3(C) ==
    {i \in {Len(C)} : Len(C) >= 1 /\ IsNum(C[i])}

\* an extraction that consults the third pattern only
LastPatternOnly(C) == IF paymentPattern3(C) # {} THEN 3 ELSE 0

\* which pattern supplies amount and customer: 1, 2, 3, or 0 when all fail
PaymentMatch(C) ==
    IF paymentPattern1(C) # {} THEN 1
    ELSE IF paymentPattern2(C) # {} THEN 2
    ELSE IF paymentPattern3(C) # {} THEN 3
    ELSE 0

\* [amount (hundredths), customerName] of the pattern that matched
PaymentFields(C) ==
    LET m == PaymentMatch(C)
        at == IF m = 1 THEN Min(paymentPattern1(C))
              ELSE IF m = 2 THEN 1
              ELSE Len(C)
    IN  [amount |-> NumVal(C[at]),
         customerName |-> IF m \in {1, 2} THEN Drop(C, at + 1) ELSE << >>]

\* a payment result without the flag
NoForceReview == << >>

\* source line 1210
ForceReview == << TRUE >>

\* a payment result that skips the amount validation
UnvalidatedPayment(T, f, warnings) ==
    [Envelope("credit", warnings, T) EXCEPT
        !.credit = << [type |-> "payment", customer |-> WalkIn, single |-> << >>,
                       items |-> << >>, amount |-> f.amount * 100] >>,
        !.forceReview = << TRUE >>]

\* lines 1187-1211
PaymentResult(T, f, warnings) ==
    IF f.amount <= 0
    THEN Envelope("transaction",
                  warnings \o << Warn("Credit payment amount must be greater than 0") >>, T)
    ELSE [Envelope("credit", warnings, T) EXCEPT
             !.credit = << [type |-> "payment",
                            customer |-> IF f.customerName # << >>
                                         THEN TitleCase(f.customerName) ELSE WalkIn,
                            single |-> << >>, items |-> << >>,
                            amount |-> f.amount * 100] >>,
             !.forceReview = ForceReview]

parseCreditPayment(T, warnings) ==
    IF PaymentMatch(Drop(T, 2)) = 0
    THEN Envelope("transaction", warnings \o << Warn("Could not parse credit payment amount") >>, T)
    ELSE PaymentResult(T, PaymentFields(Drop(T, 2)), warnings)

parseCreditCommand(T, now, lk) ==
    IF Len(T) = 0 \/ ~isCreditCommand(T)
    THEN Envelope("transaction", << Warn("Not a credit command") >>, T)
    ELSE IF getCreditCommandType(T) = ""
    THEN Envelope("transaction", << Warn("Could not determine credit command type") >>, T)
    ELSE IF getCreditCommandType(T) = "sale" THEN parseCreditSale(T, now, lk, << >>)
    ELSE parseCreditPayment(T, << >>)

(***************************************************************************)
(* Command classifier (part_000 lines 709-770).                            *)
(***************************************************************************)
\* a classifier that tests for an order keyword before the credit prefix
RouteOrderFirst(T) ==
    IF isOrderCommand(T) THEN "order"
    ELSE IF isCreditCommand(T) THEN "credit"
    ELSE IF Len(parsePriceSentence(T)) > 0 THEN "price"
    ELSE "transaction"

\* a classifier whose price test is the presence of a price keyword
RouteByKeyword(T) ==
    IF isCreditCommand(T) THEN "credit"
    ELSE IF isOrderCommand(T) THEN "order"
    ELSE IF \E i \in 1..Len(T) : \E kw \in PriceKeywords : Includes(Lower(T[i]), kw)
    THEN "price"
    ELSE "transaction"

\* the grammar that decides: the first of the four tests that matches
Route(T) ==
    IF isCreditCommand(T) THEN "credit"
    ELSE IF isOrderCommand(T) THEN "order"
    ELSE IF Len(parsePriceSentence(T)) > 0 THEN "price"
    ELSE "transaction"

\* a transaction result that also fills the order field
EntryAndOrder(T, parsedItems) ==
    [Envelope("transaction", << >>, T) EXCEPT
        !.entry = << parsedItems >>, !.order = << parsedItems >>]

\* lines 744-769
TransactionResult(T, parsedItems) ==
    IF Len(parsedItems) = 0
    THEN Envelope("transaction", << Warn("Could not parse any items from input") >>, T)
    ELSE [Envelope("transaction", << >>, T) EXCEPT !.entry = << parsedItems[1] >>]

Classified(T, now, lk, route) ==
    IF route = "credit" THEN parseCreditCommand(T, now, lk)
    ELSE IF route = "order" THEN parseOrderCommand(T, now)
    ELSE IF route = "price"
    THEN [Envelope("price", << >>, T) EXCEPT !.priceUpdates = << parsePriceSentence(T) >>]
    ELSE TransactionResult(T, parseSentence(T, now))

\* a classifier without the test for empty text
ClassifyUnguarded(T, now, lk) == Classified(T, now, lk, Route(T))

parseEnhanced(T, now, lk) ==
    IF Len(T) = 0 THEN Envelope("transaction", << Warn("Empty input text") >>, T)
    ELSE Classified(T, now, lk, Route(T))

(***************************************************************************)
(* Review callback of the home screen (HomeScreen.tsx lines 139-189 and    *)
(* 451-488).  The screen state is [sent, card, saved, toast]: the payload  *)
(* handed to onTranscriptParsed, the review card opened, the storage call  *)
(* made and the toast shown ("" for none).                                 *)
(***************************************************************************)
NoUi == [sent |-> << >>, card |-> "", saved |-> "", toast |-> ""]

Payload(type, credit, forceReview) ==
    [type |-> type, credit |-> credit, forceReview |-> forceReview]

\* the storage call saveQuickCreditEntry makes
saveQuickCreditEntry(creditData) ==
    IF creditData.type = "sale"
    THEN IF creditData.items # << >> /\ Len(creditData.items[1]) > 0
         THEN "createCreditSaleBatch"
         ELSE "createCreditSale"
    ELSE IF creditData.type = "payment" THEN "createCreditPayment"
    ELSE ""

\* a callback that reads the quick-capture setting only
handleIgnoringForceReview(entry, quick, u) ==
    IF entry.type = "credit" /\ quick
    THEN [u EXCEPT !.sent = << entry >>, !.saved = saveQuickCreditEntry(entry.credit[1])]
    ELSE [u EXCEPT !.sent = << entry >>, !.card = entry.type]

handleTranscriptParsed(entry, quick, u) ==
    LET sent == [u EXCEPT !.sent = << entry >>]
        shown(card) == [sent EXCEPT !.card = card]
    IN  IF entry.type = "price" THEN shown("price")
        ELSE IF entry.type = "multi-price" THEN shown("multi-price")
        ELSE IF entry.type = "order" THEN IF ~quick THEN shown("order") ELSE sent
        ELSE IF entry.type = "credit"
        THEN IF ~quick \/ entry.forceReview = << TRUE >>
             THEN shown("credit")
             ELSE [sent EXCEPT !.saved = saveQuickCreditEntry(entry.credit[1])]
        ELSE IF entry.type = "multiple-transactions"
        THEN IF ~quick THEN shown("entries") ELSE sent
        ELSE IF ~quick THEN shown("entry") ELSE sent

(***************************************************************************)
(* Voice pipeline (part_002 lines 554-873), in the pieces between its      *)
(* awaits.                                                                 *)
(***************************************************************************)
\* lines 565-572: what the credit section does with a parseCreditCommand result
CreditSection(parsedResult, quick) ==
    IF parsedResult.type = "credit" /\ parsedResult.credit # << >>
    THEN handleTranscriptParsed(
             Payload("credit", parsedResult.credit, parsedResult.forceReview), quick, NoUi)
    ELSE NoUi

\* a price section that saves the prices itself in quick mode
PriceQuickSave(priceUpdates, quick) ==
    IF quick /\ Len(priceUpdates) > 0 THEN [NoUi EXCEPT !.saved = "savePrices"]
    ELSE IF Len(priceUpdates) > 1
    THEN handleTranscriptParsed(Payload("multi-price", << >>, << >>), quick, NoUi)
    ELSE IF Len(priceUpdates) = 1
    THEN handleTranscriptParsed(Payload("price", << >>, << >>), quick, NoUi)
    ELSE NoUi

\* lines 580-600 and 612-629: a price command goes to the review callback
PriceSection(priceUpdates, quick) ==
    IF Len(priceUpdates) > 1
    THEN handleTranscriptParsed(Payload("multi-price", << >>, << >>), quick, NoUi)
    ELSE IF Len(priceUpdates) = 1
    THEN handleTranscriptParsed(Payload("price", << >>, << >>), quick, NoUi)
    ELSE NoUi

\* if (!price || price <= 0): the order items whose price is looked up
OrderNeedsLookup(item) == item.price = << >> \/ item.price[1] <= 0

IssueOrderLookups(its) ==
    [i \in 1..Len(its) |-> IF OrderNeedsLookup(its[i]) THEN Pending ELSE NotCalled]

Settled(lks) == \A i \in 1..Len(lks) : lks[i].st # "pending"
AnyThrown(lks) == \E i \in 1..Len(lks) : lks[i].st = "thrown"

(***************************************************************************)
(* Inputs: an utterance is a lead, up to MaxItems item chunks joined by    *)
(* "and" or a comma, and a tail.                                           *)
(***************************************************************************)
Leads == {<< >>, << "Credit", "Sales" >>, << "credit", "paid" >>, << "order" >>}
Chunks ==
    {<< "rice" >>, << "order", "rice" >>, << "2", "kg", "rice", "for", "rs", "20" >>,
     << "1.5", "kg", "wheat", "0.25", "rs" >>, << "20" >>, << "0" >>, << "rs" >>}
Tails == {<< >>, << "for", "Priya" >>}
Joiners == {"and", ","}

\* the bodies of n chunks joined by j
RECURSIVE Joined(_, _)
Joined(n, j) ==
    IF n = 0 THEN {<< >>}
    ELSE IF n = 1 THEN Chunks
    ELSE {b \o << j >> \o c : b \in Joined(n - 1, j), c \in Chunks}

Bodies(n) == UNION {Joined(n, j) : j \in Joiners}

\* one-chunk phrases with a verb of sale or purchase in front and a trailing
\* "for WORD" whose word is no customer name
Verbs == {<< "sold" >>, << "bought" >>, << "sold", "bought" >>}
NameTails == {<< >>, << "for", "five" >>, << "for", "g" >>}
Phrases == {l \o c \o t : l \in Leads \cup Verbs, c \in Chunks, t \in NameTails}

Utterances ==
    {l \o b \o t : l \in Leads, b \in UNION {Bodies(n) : n \in 0..MaxItems}, t \in Tails}
    \cup Phrases

\* what a lookupPrice promise can settle to; the catalog price is 45.00
CatalogPrices == {4500}
Outcomes ==
    {[st |-> "thrown", val |-> 0], [st |-> "null", val |-> 0]}
    \cup {[st |-> "value", val |-> p] : p \in CatalogPrices}

Callers == {"parseEnhanced", "voice", "parseSentence"}
LookupStages == {"creditSale", "orderQuick", "orderReview", "transaction"}

(***************************************************************************)
(* State machine.                                                          *)
(***************************************************************************)
Init ==
    /\ text \in Utterances
    /\ caller \in Callers
    /\ quickCapture \in BOOLEAN
    /\ caller # "voice" => ~quickCapture
    /\ clock = 0
    /\ pc = "start"
    /\ items = << >>
    /\ lookups = << >>
    /\ enriched = << >>
    /\ result = << >>
    /\ ui = NoUi
    /\ unitCall = Idle
    /\ priceCall = Idle
    /\ orderDb = Idle
    /\ storage = Idle
    /\ session = Idle

\* a credit sale awaits parseSentenceWithPriceLookup: its lookups are issued
AwaitCreditSale ==
    /\ items' = parseSentence(CreditSaleItemText(text), clock)
    /\ lookups' = IssueLookups(items')
    /\ pc' = "creditSale"
    /\ UNCHANGED <<text, caller, quickCapture, clock, enriched, result, ui>>

\* parseSentence(text), called on its own
ParseSentenceCall ==
    /\ pc = "start"
    /\ UNCHANGED <<unitCall, priceCall, orderDb, storage, session>>
    /\ caller = "parseSentence"
    /\ items' = parseSentence(text, clock)
    /\ pc' = "done"
    /\ UNCHANGED <<text, caller, quickCapture, clock, lookups, enriched, result, ui>>

\* parseEnhanced(text) up to its first await
ParseEnhancedCall ==
    /\ pc = "start"
    /\ UNCHANGED <<unitCall, priceCall, orderDb, storage, session>>
    /\ caller = "parseEnhanced"
    /\ IF Len(text) > 0 /\ Route(text) = "credit" /\ getCreditCommandType(text) = "sale"
       THEN AwaitCreditSale
       ELSE /\ result' = << parseEnhanced(text, clock, << >>) >>
            /\ pc' = "done"
            /\ UNCHANGED <<text, caller, quickCapture, clock, items, lookups, enriched, ui>>

\* lines 606-868 up to the first price lookup: what the pipeline does with the
\* result of parseEnhanced
AfterParseEnhanced(parsedResult) ==
    /\ result' = << parsedResult >>
    /\ IF parsedResult.type = "price"
       THEN /\ ui' = PriceSection(parsedResult.priceUpdates[1], quickCapture)
            /\ pc' = "done"
            /\ UNCHANGED <<items, lookups>>
       ELSE IF parsedResult.type = "order" /\ parsedResult.order # << >>
       THEN /\ items' = parsedResult.order[1].items
            /\ lookups' = IssueOrderLookups(items')
            /\ pc' = IF quickCapture THEN "orderQuick" ELSE "orderReview"
            /\ ui' = ui
       ELSE IF parsedResult.type = "order"
       THEN /\ ui' = [NoUi EXCEPT !.toast = "Order detected but no handler available"]
            /\ pc' = "done"
            /\ UNCHANGED <<items, lookups>>
       ELSE IF parsedResult.type = "credit"
       THEN /\ pc' = "done"
            /\ UNCHANGED <<items, lookups, ui>>
       ELSE /\ items' = parseSentence(text, clock)
            /\ lookups' = IssueLookups(items')
            /\ pc' = "transaction"
            /\ ui' = ui
    /\ UNCHANGED <<text, caller, quickCapture, clock, enriched>>

\* processFinalTranscript(text) up to its first await on a price lookup
ProcessFinalTranscript ==
    /\ pc = "start"
    /\ UNCHANGED <<unitCall, priceCall, orderDb, storage, session>>
    /\ caller = "voice"
    /\ IF Len(text) = 0
       THEN /\ pc' = "done"
            /\ UNCHANGED <<text, caller, quickCapture, clock, items, lookups, enriched, result, ui>>
       ELSE IF isCreditCommand(text) /\ getCreditCommandType(text) = "sale"
       THEN AwaitCreditSale
       ELSE IF isCreditCommand(text)
       THEN /\ result' = << parseCreditCommand(text, clock, << >>) >>
            /\ ui' = CreditSection(result'[1], quickCapture)
            /\ pc' = "done"
            /\ UNCHANGED <<text, caller, quickCapture, clock, items, lookups, enriched>>
       ELSE IF Len(parsePriceSentence(text)) > 0
       THEN /\ ui' = PriceSection(parsePriceSentence(text), quickCapture)
            /\ pc' = "done"
            /\ UNCHANGED <<text, caller, quickCapture, clock, items, lookups, enriched, result>>
       ELSE AfterParseEnhanced(parseEnhanced(text, clock, << >>))

\* one pending lookupPrice promise settles
LookupSettle(i, o) ==
    /\ pc \in LookupStages
    /\ UNCHANGED <<unitCall, priceCall, orderDb, storage, session>>
    /\ i \in 1..Len(lookups)
    /\ lookups[i] = Pending
    /\ lookups' = [lookups EXCEPT ![i] = o]
    /\ UNCHANGED <<text, caller, quickCapture, clock, pc, items, enriched, result, ui>>

\* parseCreditSale resumes after Promise.all and the caller receives the result
CreditSaleResume ==
    /\ pc = "creditSale"
    /\ UNCHANGED <<unitCall, priceCall, orderDb, storage, session>>
    /\ Settled(lookups)
    /\ enriched' = << parseSentenceWithPriceLookup(CreditSaleItemText(text), clock, lookups) >>
    /\ result' = << parseCreditCommand(text, clock, lookups) >>
    /\ ui' = IF caller = "voice" THEN CreditSection(result'[1], quickCapture) ELSE ui
    /\ pc' = "done"
    /\ UNCHANGED <<text, caller, quickCapture, clock, items, lookups>>

\* lines 638-675: quick mode creates the order, or its catch falls through to
\* the review section, which looks the prices up again
OrderQuickResume ==
    /\ pc = "orderQuick"
    /\ UNCHANGED <<unitCall, priceCall, orderDb, storage, session>>
    /\ Settled(lookups)
    /\ IF AnyThrown(lookups)
       THEN /\ ui' = [ui EXCEPT !.toast = "Failed to create order"]
            /\ lookups' = IssueOrderLookups(items)
            /\ pc' = "orderReview"
       ELSE /\ ui' = [ui EXCEPT !.saved = "createOrder", !.toast = "Order created"]
            /\ lookups' = lookups
            /\ pc' = "done"
    /\ UNCHANGED <<text, caller, quickCapture, clock, items, enriched, result>>

\* lines 678-724: the order goes to the review callback; a lookup that threw
\* lands in the outer catch
OrderReviewResume ==
    /\ pc = "orderReview"
    /\ UNCHANGED <<unitCall, priceCall, orderDb, storage, session>>
    /\ Settled(lookups)
    /\ ui' = IF AnyThrown(lookups) THEN ui
             ELSE handleTranscriptParsed(Payload("order", << >>, << >>), quickCapture, ui)
    /\ pc' = "done"
    /\ UNCHANGED <<text, caller, quickCapture, clock, items, lookups, enriched, result>>

\* lines 748-868: what the pipeline does with the enriched entries
TransactionSection(r, quick, u) ==
    IF quick
    THEN IF r.thrown \/ Len(r.entries) = 0
         THEN [u EXCEPT !.saved = "saveEntry", !.toast = "Saved"]
         ELSE [u EXCEPT !.saved = "saveEntriesBatch", !.toast = "Saved"]
    ELSE IF r.thrown THEN u
    ELSE IF Len(r.entries) > 1
    THEN handleTranscriptParsed(Payload("multiple-transactions", << >>, << >>), quick, u)
    ELSE IF Len(r.entries) = 1
    THEN handleTranscriptParsed(Payload(r.entries[1].type, << >>, << >>), quick, u)
    ELSE handleTranscriptParsed(Payload("", << >>, << >>), quick, u)

\* the entries are saved (quick mode) or reviewed
TransactionResume ==
    /\ pc = "transaction"
    /\ UNCHANGED <<unitCall, priceCall, orderDb, storage, session>>
    /\ Settled(lookups)
    /\ enriched' = << parseSentenceWithPriceLookup(text, clock, lookups) >>
    /\ ui' = TransactionSection(enriched'[1], quickCapture, ui)
    /\ pc' = "done"
    /\ UNCHANGED <<text, caller, quickCapture, clock, items, lookups, result>>

Next ==
    \/ ParseSentenceCall
    \/ ParseEnhancedCall
    \/ ProcessFinalTranscript
    \/ \E i \in 1..MaxItems + 1, o \in Outcomes : LookupSettle(i, o)
    \/ CreditSaleResume
    \/ OrderQuickResume
    \/ OrderReviewResume
    \/ TransactionResume

Spec == Init /\ [][Next]_vars

(***************************************************************************)
(* Properties.                                                             *)
(***************************************************************************)
\* parseEnhanced has resolved
Classified_Done == pc = "done" /\ caller = "parseEnhanced"
\* processFinalTranscript has returned
Voice_Done == pc = "done" /\ caller = "voice"

HasPayment(r) == r.credit # << >> /\ r.credit[1].type = "payment"
HasWarning(r, msg) == \E i \in 1..Len(r.warnings) : r.warnings[i].msg = msg
WarningNames(r, msg) ==
    UNION {ToSet(r.warnings[i].names) : i \in {j \in 1..Len(r.warnings) : r.warnings[j].msg = msg}}

\* C1: parseEnhanced decides the route by the first of the tests credit, order,
\* price, transaction that matches: a text with the credit prefix gets the
\* credit parser's result and never type 'price' or 'order', whatever currency
\* tokens or order keywords it holds; a text without the prefix but with an
\* order keyword gets type 'order', never 'price'; 'price' and 'transaction'
\* are left for the texts that pass both tests.
C1_RoutePriority ==
    (Classified_Done /\ Len(text) > 0) =>
        /\ isCreditCommand(text) =>
              /\ result[1] = parseCreditCommand(text, clock, lookups)
              /\ result[1].type \notin {"price", "order"}
        /\ (~isCreditCommand(text) /\ isOrderCommand(text)) => result[1].type = "order"
        /\ (~isCreditCommand(text) /\ ~isOrderCommand(text)) =>
              result[1].type = IF Len(parsePriceSentence(text)) > 0 THEN "price" ELSE "transaction"

\* a credit sale that holds a currency token and an order keyword was classified 'credit'
C1_Witness ==
    /\ Classified_Done
    /\ isCreditCommand(text)
    /\ isOrderCommand(text)
    /\ \E i \in 1..Len(text) : Lower(text[i]) = "rs"
    /\ result[1].type = "credit"

\* C2: whenever the voice pipeline has handled a transcript that parsed to a
\* credit payment, with quick capture on or off, the payload it handed to the
\* screen carries forceReview, the credit review card is open and no storage
\* call was made.
C2_PaymentReviewed ==
    (Voice_Done /\ result # << >> /\ HasPayment(result[1])) =>
        /\ ui.sent # << >>
        /\ ui.sent[1].type = "credit"
        /\ ui.sent[1].forceReview = << TRUE >>
        /\ ui.card = "credit"
        /\ ui.saved = ""

\* a credit payment spoken with quick capture on is waiting in the review card
C2_Witness ==
    /\ Voice_Done
    /\ quickCapture
    /\ result # << >>
    /\ HasPayment(result[1])
    /\ ui.card = "credit"

\* C3: every result of parseCreditCommand or parseEnhanced whose credit payload
\* is a payment has forceReview = true, whichever pattern supplied the amount.
C3_PaymentForcesReview ==
    (pc = "done" /\ result # << >> /\ HasPayment(result[1])) =>
        /\ PaymentMatch(Drop(text, 2)) \in {1, 2, 3}
        /\ result[1].forceReview = << TRUE >>

\* parseEnhanced returned a payment whose amount the third pattern supplied
C3_Witness ==
    /\ Classified_Done
    /\ result # << >>
    /\ HasPayment(result[1])
    /\ PaymentMatch(Drop(text, 2)) = 3

PayloadFields == {"entry", "order", "priceUpdates", "credit"}
Populated(r) == {f \in PayloadFields : r[f] # << >>}
PayloadOf(type) ==
    CASE type = "transaction" -> "entry"
      [] type = "order" -> "order"
      [] type = "price" -> "priceUpdates"
      [] type = "credit" -> "credit"

\* C4 as stated: in every result of parseEnhanced exactly one of entry, order,
\* priceUpdates, credit is populated, the one that corresponds to the type.
C4_ExactlyOnePayload ==
    Classified_Done => Populated(result[1]) = {PayloadOf(result[1].type)}

\* C4: in every result of parseEnhanced at most one of entry, order,
\* priceUpdates, credit is populated, and a populated field is the one that
\* corresponds to the type; a result with none populated carries a warning.
C4_AtMostOnePayload ==
    Classified_Done =>
        /\ Populated(result[1]) \subseteq {PayloadOf(result[1].type)}
        /\ Populated(result[1]) = {} => result[1].warnings # << >>

\* parseEnhanced returned a result for a non-empty text with no payload field populated
C4_Witness ==
    /\ Classified_Done
    /\ Len(text) > 0
    /\ Populated(result[1]) = {}

\* the payload of the result's type is missing, or is an entry priced 0 or a
\* credit payload of amount 0
AbsentOrZero(r) ==
    \/ r.type = "transaction" /\ (r.entry = << >> \/ r.entry[1].price = 0)
    \/ r.type = "order" /\ r.order = << >>
    \/ r.type = "credit" /\ (r.credit = << >> \/ r.credit[1].amount = 0)

\* C5: parseEnhanced resolves to a ParsedResult on every route, and whenever
\* the entry, order or credit payload of the result is absent or zero-valued
\* its warnings are non-empty.
C5_AbsentOrZeroWarns ==
    Classified_Done =>
        /\ Len(result) = 1
        /\ result[1].type \in {"transaction", "order", "price", "credit"}
        /\ AbsentOrZero(result[1]) => result[1].warnings # << >>

\* what a payment command returns once a pattern has supplied amount and name
PaymentOutcome(r, amount, name) ==
    IF amount > 0
    THEN /\ r.type = "credit"
         /\ HasPayment(r)
         /\ r.credit[1].amount = amount * 100
         /\ r.credit[1].customer = IF name # << >> THEN TitleCase(name) ELSE WalkIn
    ELSE r.type = "transaction" /\ r.credit = << >>

PaymentFailed(r) ==
    /\ r.type = "transaction"
    /\ r.credit = << >>
    /\ HasWarning(r, "Could not parse credit payment amount")

\* C6: a credit payment takes amount and customer from the first of its three
\* patterns, in the order 1, 2, 3, that matches; it ends in FAIL, a
\* 'transaction' envelope with the warning, exactly when none of them matches.
C6_PatternOrder ==
    (pc = "done" /\ result # << >> /\ startsWithCreditPaid(text)) =>
        LET C == Drop(text, 2)
            r == result[1]
        IN  /\ paymentPattern1(C) # {} =>
                  \E i \in paymentPattern1(C) : PaymentOutcome(r, NumVal(C[i]), Drop(C, i + 1))
            /\ (paymentPattern1(C) = {} /\ paymentPattern2(C) # {}) =>
                  PaymentOutcome(r, NumVal(C[1]), Drop(C, 2))
            /\ (paymentPattern1(C) = {} /\ paymentPattern2(C) = {} /\ paymentPattern3(C) # {}) =>
                  PaymentOutcome(r, NumVal(C[Len(C)]), << >>)
            /\ PaymentFailed(r) <=>
                  (paymentPattern1(C) = {} /\ paymentPattern2(C) = {} /\ paymentPattern3(C) = {})

\* the first pattern did not match and the second supplied the payment
C6_Witness ==
    /\ pc = "done"
    /\ result # << >>
    /\ startsWithCreditPaid(text)
    /\ paymentPattern1(Drop(text, 2)) = {}
    /\ paymentPattern2(Drop(text, 2)) # {}
    /\ HasPayment(result[1])

\* the credit command of the state cannot be parsed: a payment with no amount
\* or amount zero, or a sale with no items
Unparsable ==
    \/ /\ startsWithCreditPaid(text)
       /\ \/ PaymentMatch(Drop(text, 2)) = 0
          \/ PaymentFields(Drop(text, 2)).amount = 0
    \/ /\ startsWithCreditSales(text)
       /\ Len(parseSentence(CreditSaleItemText(text), clock)) = 0

\* C7: a credit command that cannot be parsed returns non-empty warnings, no
\* credit payload, no entry and no forceReview flag; every payment payload
\* returned has amount > 0.
C7_SoftFailure ==
    (pc = "done" /\ result # << >> /\ isCreditCommand(text)) =>
        /\ Unparsable =>
              /\ result[1].warnings # << >>
              /\ result[1].credit = << >>
              /\ result[1].entry = << >>
              /\ result[1].forceReview = << >>
        /\ HasPayment(result[1]) => result[1].credit[1].amount > 0

\* a payment of amount zero came back as a soft failure
C7_Witness ==
    /\ pc = "done"
    /\ result # << >>
    /\ startsWithCreditPaid(text)
    /\ PaymentMatch(Drop(text, 2)) # 0
    /\ PaymentFields(Drop(text, 2)).amount = 0
    /\ result[1].warnings # << >>
    /\ result[1].credit = << >>

\* parseSentenceWithPriceLookup has resolved in this call
Enriched_Done == pc = "done" /\ enriched # << >>

\* the lookups as they would be had every throwing lookup returned null
Calm(lks) == [i \in 1..Len(lks) |-> IF lks[i].st = "thrown" THEN [st |-> "null", val |-> 0] ELSE lks[i]]

\* C8: when lookups threw, parseSentenceWithPriceLookup still resolved with one
\* entry per item; each item whose lookup threw keeps price 0 and provenance
\* 'parsed' and is named in the 'No price found for' warning; every other entry
\* is what it would be had the failing lookups returned no price.
C8_LookupFailureContained ==
    (Enriched_Done /\ AnyThrown(lookups)) =>
        LET r == enriched[1] IN
        /\ ~r.thrown
        /\ Len(r.entries) = Len(items)
        /\ \A i \in 1..Len(items) :
              IF lookups[i].st = "thrown"
              THEN /\ r.entries[i].price = 0
                   /\ r.entries[i].price_source = "parsed"
                   /\ r.entries[i].item \in WarningNames(r, "No price found for")
              ELSE r.entries[i] = EnrichItems(items, Calm(lookups)).entries[i]

\* of two items looked up, one lookup threw and the other returned a price
C8_Witness ==
    /\ Enriched_Done
    /\ Len(items) = 2
    /\ \E i, j \in 1..2 :
          /\ lookups[i].st = "thrown"
          /\ lookups[j].st = "value"
          /\ enriched[1].entries[j].price_source = "auto-lookup"

\* C9: the lookup is called for exactly the items whose parsed price is <= 0; a
\* positive price p returned gives the entry price p, total p*qty, provenance
\* 'auto-lookup' and a place in the 'Auto-populated' warning; an item parsed
\* with a price > 0 is not looked up and keeps its price and provenance
\* 'parsed'; the 'No price found for' warning is there exactly when some entry
\* still has price 0.
C9_PriceEnrichment ==
    /\ pc \in {"creditSale", "transaction"} =>
          \A i \in 1..Len(items) : (lookups[i].st # "none") <=> (items[i].price <= 0)
    /\ (Enriched_Done /\ Len(items) > 0) =>
          LET r == enriched[1] IN
          /\ \A i \in 1..Len(items) :
                /\ (lookups[i].st # "none") <=> (items[i].price <= 0)
                /\ (lookups[i].st = "value" /\ lookups[i].val > 0) =>
                      /\ r.entries[i].price = lookups[i].val
                      /\ r.entries[i].total = lookups[i].val * items[i].qty
                      /\ r.entries[i].price_source = "auto-lookup"
                      /\ r.entries[i].item \in WarningNames(r, "Auto-populated prices for")
                /\ items[i].price > 0 =>
                      /\ r.entries[i].price = items[i].price
                      /\ r.entries[i].price_source = "parsed"
          /\ HasWarning(r, "No price found for") <=>
                (\E i \in 1..Len(r.entries) : r.entries[i].price = 0)

\* one item got the catalog price and the other kept the price it was spoken with
C9_Witness ==
    /\ Enriched_Done
    /\ Len(items) = 2
    /\ \E i, j \in 1..2 :
          /\ lookups[i].st = "value"
          /\ enriched[1].entries[i].price = lookups[i].val
          /\ items[j].price > 0
          /\ lookups[j].st = "none"

\* Math.round(t * 100) / 100 on a count of ten-thousandths
Round2(t) == ((t + 50) \div 100) * 100
Abs(x) == IF x < 0 THEN 0 - x ELSE x

\* |total - round(qty * price, 2)| <= 0.01, in ten-thousandths
TotalConsistent(e) == Abs(e.total - Round2(e.qty * e.price)) <= 100

\* the entries parseSingleItem and parseSentence produced in this call
ParsedEntries ==
    (IF pc \in {"creditSale", "transaction"} \/ enriched # << >> \/ caller = "parseSentence"
     THEN ToSet(items) ELSE {})
    \cup (IF result # << >> THEN ToSet(result[1].entry) ELSE {})
\* the entries parseSentenceWithPriceLookup produced in this call
EnrichedEntries == IF enriched # << >> THEN ToSet(enriched[1].entries) ELSE {}

\* C10: every entry produced by parseSingleItem, parseSentence or
\* parseSentenceWithPriceLookup has total within 0.01 of round(qty * price, 2).
C10_TotalConsistent ==
    \A e \in ParsedEntries \cup EnrichedEntries : TotalConsistent(e)

\* an entry whose total is not a whole number of paise next to one priced by lookup
C10_Witness ==
    /\ \E e \in EnrichedEntries : e.total # Round2(e.total) /\ e.price > 0
    /\ \E e \in EnrichedEntries : e.price_source = "auto-lookup" /\ e.total > 0

\* parseSentence, called on its own, has returned
Sentence_Done == pc = "done" /\ caller = "parseSentence"

\* the text of the state reaches parseSingleItem as one chunk
OneChunk == Len(text) > 0 /\ Len(Split(LowerText(text), "sentence")) = 1

\* extractItem throws UNKNOWN_ITEM for the chunk
UnknownItem(chunk) ==
    containsSpecialBrand(chunk) = << >> /\ extractItem(chunk).err = "UNKNOWN_ITEM"

\* C11: parseSingleItem returns null or an entry with a non-empty item and
\* never lets an error out; when extractItem throws UNKNOWN_ITEM for a chunk the
\* whole-chunk heuristic follows: the entry is named after what is left of the
\* chunk, and the chunk is skipped only when nothing is left.
C11_UnknownItemFallback ==
    /\ \A e \in ParsedEntries :
          /\ Len(e.item) > 0
          /\ UnknownItem(e.source_text) => e.item = TitleCase(ChunkName(e.source_text))
    /\ (Sentence_Done /\ OneChunk) =>
          /\ Len(items) <= 1
          /\ UnknownItem(text) => (Len(items) = 0 <=> Len(ChunkName(text)) = 0)
          /\ text = << "20" >> => (Len(items) = 1 /\ items[1].item = << "20" >>)
          /\ text = << "rs" >> => items = << >>

\* a chunk for which extractItem throws came back as an entry named by the heuristic
C11_Witness ==
    /\ Sentence_Done
    /\ OneChunk
    /\ UnknownItem(text)
    /\ Len(items) = 1
    /\ items[1].item = TitleCase(ChunkName(text))

C13_EmptyInput ==
    /\ (Sentence_Done /\ Len(text) = 0) => items = << >>
    /\ (Classified_Done /\ Len(text) = 0) =>
          /\ result[1].type = "transaction"
          /\ result[1].warnings = << Warn("Empty input text") >>
          /\ result[1].source_text = text
          /\ Populated(result[1]) = {}
          /\ result[1].forceReview = << >>
          /\ items = << >>
          /\ lookups = << >>
          /\ enriched = << >>

\* parseEnhanced has answered the empty text
C13_Witness ==
    /\ Classified_Done
    /\ text = << >>
    /\ HasWarning(result[1], "Empty input text")

\* the chunks of the text for which parseSingleItem returns an entry
KeptChunks ==
    SelectSeq(Split(LowerText(text), "sentence"), LAMBDA c : parseSingleItem(c, clock) # << >>)

\* C14: for a text of n >= 2 chunks joined by "and" or commas, of which at
\* least one parses, parseSentence returns one entry per chunk that parses, in
\* chunk order, each with the item and the quantity of its own chunk; when every
\* chunk parses that is exactly n entries; chunks that parse to null are left
\* out and change nothing else.
C14_MultiItemSplit ==
    (Sentence_Done /\ Len(Split(LowerText(text), "sentence")) >= 2 /\ Len(KeptChunks) > 0) =>
        /\ Len(items) = Len(KeptChunks)
        /\ \A k \in 1..Len(KeptChunks) :
              /\ items[k].source_text = KeptChunks[k]
              /\ items[k].item = parseSingleItem(KeptChunks[k], clock)[1].item
              /\ items[k].qty = extractQuantity(KeptChunks[k])
        /\ text = << "2", "kg", "rice", "for", "rs", "20", "and", "1.5", "kg", "wheat", "0.25", "rs" >> =>
              /\ Len(items) = 2
              /\ items[1].item = << "Rice" >> /\ items[1].qty = 200
              /\ items[2].item = << "Wheat" >> /\ items[2].qty = 150

\* two chunks, each with its own item and quantity, gave two entries in chunk order
C14_Witness ==
    /\ Sentence_Done
    /\ Len(Split(LowerText(text), "sentence")) = 2
    /\ Len(items) = 2
    /\ items[1].item = << "Rice" >> /\ items[1].qty = 200
    /\ items[2].item = << "Wheat" >> /\ items[2].qty = 150

\* the places of a chunk where a quantity pattern finds a number above zero:
\* before a unit, at the start, or before "of"
QuantityAt(T) ==
    {i \in 1..Len(T) :
        /\ IsNum(T[i]) /\ NumVal(T[i]) > 0
        /\ \/ i = 1
           \/ i < Len(T) /\ Lower(T[i + 1]) \in QuantityUnits \cup {"of"}}

\* C15: every entry of parseSingleItem, parseSentence and
\* parseSentenceWithPriceLookup has qty > 0, and qty is 1 when no quantity
\* pattern of extractQuantity finds a number above zero in the entry's chunk
\* (no number at all, or a zero quantity only).
C15_QuantityPositive ==
    \A e \in ParsedEntries \cup EnrichedEntries :
        /\ e.qty > 0
        /\ QuantityAt(e.source_text) = {} => e.qty = 100
        /\ e.source_text = << "sold", "rice" >> => e.qty = 100

\* an entry whose chunk holds the quantity zero, and nothing else, has qty 1
C15_Witness ==
    \E e \in ParsedEntries :
        /\ e.source_text = << "0" >>
        /\ extractQuantity(e.source_text) = 100
        /\ e.qty = 100

\* a parser call has returned a result of type 'order'
OrderReturned == result # << >> /\ result[1].type = "order"

\* C16: a result of type 'order' either has no order payload and a non-empty
\* warnings list, or an order payload with at least one item, every item with a
\* non-empty name; the order commands that hold no item ("order", "order rs")
\* get the first.
C16_OrderSoftFailure ==
    OrderReturned =>
        /\ result[1].order = << >> => result[1].warnings # << >>
        /\ result[1].order # << >> =>
              /\ Len(result[1].order[1].items) >= 1
              /\ \A i \in 1..Len(result[1].order[1].items) :
                    Len(result[1].order[1].items[i].item) > 0
        /\ text \in {<< "order" >>, << "order", "rs" >>} =>
              /\ result[1].order = << >>
              /\ HasWarning(result[1], "Could not identify any items in the order")

\* an order command in which no item was found came back without a payload
C16_Witness ==
    /\ OrderReturned
    /\ isOrderCommand(text)
    /\ result[1].order = << >>
    /\ HasWarning(result[1], "Could not identify any items in the order")

\* the text ends in "for WORD" and no earlier "for" opens a run of words to the end
TrailingForWord(T) ==
    /\ Len(T) >= 2
    /\ Lower(T[Len(T) - 1]) = "for"
    /\ IsAlpha(T[Len(T)])
    /\ \A i \in 1..Len(T) - 2 : Lower(T[i]) = "for" => \E j \in i + 1..Len(T) : ~IsAlpha(T[j])

\* WORD is no customer name: a word of the exclusion list or a single character
NoName(w) == Lower(w) \in excludeWords \/ CharLen(w) = 1

\* C17: when the trailing "for WORD" of an order command holds a word of the
\* exclusion list or a single character, extractCustomerName returns no
\* customer and the order's customer is 'Walk-in', never the word; any other
\* trailing word is the customer, title-cased.
C17_OrderCustomerExclusion ==
    (OrderReturned /\ result[1].order # << >> /\ TrailingForWord(text)) =>
        LET w == text[Len(text)] IN
        /\ NoName(w) =>
              /\ extractCustomerName(text) = << >>
              /\ result[1].order[1].customer = << "Walk-in" >>
        /\ ~NoName(w) => result[1].order[1].customer = << TitleWord(w) >>
        /\ result[1].order[1].customer \notin {<< "Five" >>, << "G" >>}

\* an order that ends in "for five" went to the walk-in customer
C17_Witness ==
    /\ OrderReturned
    /\ result[1].order # << >>
    /\ TrailingForWord(text)
    /\ text[Len(text)] = "five"
    /\ result[1].order[1].customer = << "Walk-in" >>

\* a credit sale has been returned: its payload and the entries enrichment gave
SaleReturned ==
    /\ pc = "done"
    /\ enriched # << >>
    /\ result # << >>
    /\ result[1].credit # << >>
    /\ result[1].credit[1].type = "sale"

RECURSIVE SumOf(_)
SumOf(ns) == IF ns = << >> THEN 0 ELSE Head(ns) + SumOf(Tail(ns))

\* C18: a credit sale of one entry carries the single-item fields item, qty,
\* unit and price of that entry, no items list, and amount = qty * price; a sale
\* of several entries carries no single-item fields and an items list with one
\* element per entry, in order, each with total = qty * price of its entry, and
\* amount = the sum of these totals.
C18_CreditSaleShape ==
    SaleReturned =>
        LET es == enriched[1].entries
            c == result[1].credit[1]
        IN  /\ Len(es) >= 1
            /\ Len(es) = 1 =>
                  /\ c.single = << [item |-> es[1].item, qty |-> es[1].qty,
                                     unit |-> es[1].unit, price |-> es[1].price] >>
                  /\ c.items = << >>
                  /\ c.amount = es[1].qty * es[1].price
            /\ Len(es) > 1 =>
                  /\ c.single = << >>
                  /\ Len(c.items) = 1
                  /\ Len(c.items[1]) = Len(es)
                  /\ \A i \in 1..Len(es) :
                        c.items[1][i] = [item |-> es[i].item, qty |-> es[i].qty, unit |-> es[i].unit,
                                         price |-> es[i].price, total |-> es[i].qty * es[i].price]
                  /\ c.amount = SumOf([i \in 1..Len(es) |-> es[i].qty * es[i].price])

\* a sale of two priced entries with different totals carries both and their sum
C18_Witness ==
    /\ SaleReturned
    /\ Len(enriched[1].entries) = 2
    /\ enriched[1].entries[1].total > 0
    /\ enriched[1].entries[2].total > 0
    /\ enriched[1].entries[1].total # enriched[1].entries[2].total
    /\ result[1].credit[1].amount = enriched[1].entries[1].total + enriched[1].entries[2].total

\* no "for" of the text opens a run of words that lasts to the end
NoForName(T) ==
    \A i \in 1..Len(T) : Lower(T[i]) = "for" => (i = Len(T) \/ \E j \in i + 1..Len(T) : ~IsAlpha(T[j]))

\* C19: every credit payload, sale or payment, has a non-empty customer; it is
\* 'Walk-in' for a sale without a trailing "for NAME" and for a payment whose
\* amount the amount-only pattern supplied; a credit sale fails only when
\* enrichment returns no entry, with or without a customer.
C19_CreditCustomer ==
    /\ (result # << >> /\ result[1].credit # << >>) =>
          LET c == result[1].credit[1] IN
          /\ Len(c.customer) > 0
          /\ (c.type = "sale" /\ NoForName(text)) => c.customer = << "Walk-in" >>
          /\ (c.type = "payment" /\ paymentPattern1(Drop(text, 2)) = {}
                                  /\ paymentPattern2(Drop(text, 2)) = {}) =>
                c.customer = << "Walk-in" >>
    /\ (pc = "done" /\ enriched # << >> /\ startsWithCreditSales(text)) =>
          (result[1].credit = << >> <=> Len(enriched[1].entries) = 0)

\* a credit sale without a trailing "for NAME" was returned for the walk-in customer
C19_Witness ==
    /\ SaleReturned
    /\ NoForName(text)
    /\ result[1].type = "credit"
    /\ result[1].credit[1].customer = << "Walk-in" >>

\* verbs of purchase and of sale, as words of a chunk
CashOutVerbs == {"bought", "buy", "purchased", "spent", "expense", "invoice", "bill"}
CashInVerbs == {"sold", "sell", "sale", "sales", "income", "received"}
HasVerb(T, S) == \E i \in 1..Len(T) : Lower(T[i]) \in S
\* "paid" before a word, unless "to customer" or "from customer" follows
PaidOut(T) ==
    \E i \in 1..Len(T) - 1 :
        /\ Lower(T[i]) = "paid"
        /\ ~(/\ Lower(T[i + 1]) \in {"to", "from"}
             /\ i + 2 <= Len(T)
             /\ Lower(T[i + 2]) = "customer")
\* a cash-out pattern matches the chunk
PurchaseSignal(T) == HasVerb(T, CashOutVerbs) \/ PaidOut(T)

\* C20: the type of every entry is 'cash-out' when a cash-out pattern matches
\* its chunk, also when a verb of sale stands beside it, and 'cash-in' otherwise:
\* with a verb of sale only, and with no verb at all, with or without a
\* currency token.
C20_CashOutFirst ==
    \A e \in ParsedEntries \cup EnrichedEntries :
        /\ PurchaseSignal(e.source_text) => e.type = "cash-out"
        /\ ~PurchaseSignal(e.source_text) => e.type = "cash-in"
        /\ e.source_text = << "sold", "bought", "rice" >> => e.type = "cash-out"
        /\ e.source_text = << "sold", "rice" >> => e.type = "cash-in"

\* an entry whose chunk holds a verb of sale and a verb of purchase is 'cash-out'
C20_Witness ==
    \E e \in ParsedEntries :
        /\ HasVerb(e.source_text, CashInVerbs)
        /\ HasVerb(e.source_text, CashOutVerbs)
        /\ e.type = "cash-out"


(***************************************************************************)
(* Unit normalisation on its own (part_000 lines 118-133 and 390-417): a   *)
(* call of normalizeUnit or of extractUnit, whose caller hands the unit it *)
(* got back to normalizeUnit once more.                                    *)
(***************************************************************************)
\* the spellings the table of normalizeUnit lists (lines 121-130)
UnitSynonyms ==
    {"kgs", "kilos", "kilograms"} \cup {"grams", "gram", "gm", "gms"}
    \cup {"litres", "litre", "ltr", "ltrs", "liters", "liter"}
    \cup {"milliliters", "milliliter", "mls"} \cup {"pcs", "pieces", "piece", "pc"}
    \cup {"packets", "pack", "packs"} \cup {"bottles", "btl", "btls"} \cup {"dozens"}

UnitWords == KnownUnitSet \cup UnitSynonyms

\* the texts handed to extractUnit: a quantity, a unit word and an item, and
\* the Parle-G texts whose "g" is no unit
UnitTexts ==
    {<< "2", u, "rice" >> : u \in UnitWords}
    \cup {<< "2", "kg", "rice", "1", u >> : u \in UnitWords}
    \cup {<< "rice" >>, << "parle", "g" >>, << "2", "packs", "parle", "g" >>}

UnitInit ==
    /\ unitCall \in
          {[pc |-> "start", fn |-> "normalizeUnit", arg |-> << u >>, out |-> "", again |-> ""] :
              u \in UnitWords}
          \cup {[pc |-> "start", fn |-> "extractUnit", arg |-> T, out |-> "", again |-> ""] :
              T \in UnitTexts}
    /\ text = << >> /\ caller = "none" /\ quickCapture = FALSE /\ clock = 0
    /\ pc = "idle" /\ items = << >> /\ lookups = << >> /\ enriched = << >>
    /\ result = << >> /\ ui = NoUi
    /\ priceCall = Idle /\ orderDb = Idle /\ storage = Idle /\ session = Idle

NormalizeUnitCall ==
    /\ unitCall.pc = "start"
    /\ unitCall.fn = "normalizeUnit"
    /\ unitCall' = [unitCall EXCEPT !.pc = "returned", !.out = normalizeUnit(unitCall.arg[1])]
    /\ UNCHANGED <<parserVars, priceCall, orderDb, storage, session>>

ExtractUnitCall ==
    /\ unitCall.pc = "start"
    /\ unitCall.fn = "extractUnit"
    /\ unitCall' = [unitCall EXCEPT !.pc = "returned", !.out = extractUnit(unitCall.arg)]
    /\ UNCHANGED <<parserVars, priceCall, orderDb, storage, session>>

\* the returned unit is normalised again
NormalizeAgain ==
    /\ unitCall.pc = "returned"
    /\ unitCall' = [unitCall EXCEPT !.pc = "renormalized", !.again = normalizeUnit(unitCall.out)]
    /\ UNCHANGED <<parserVars, priceCall, orderDb, storage, session>>

UnitNext == NormalizeUnitCall \/ ExtractUnitCall \/ NormalizeAgain

UnitSpec == UnitInit /\ [][UnitNext]_vars

\* C21: normalizeUnit is idempotent on every unit of KNOWN_UNITS and on every
\* spelling of its table, and the unit extractUnit returns is a fixed point of
\* normalizeUnit: normalising the returned unit once more gives it back.
C21_NormalizeUnitIdempotent ==
    unitCall.pc = "renormalized" => unitCall.again = unitCall.out

\* "pcs" was normalised to "piece", itself a spelling of the table, and
\* normalised once more
C21_Witness ==
    /\ unitCall.pc = "renormalized"
    /\ unitCall.fn = "normalizeUnit"
    /\ unitCall.arg = << "pcs" >>
    /\ unitCall.out = "piece"
    /\ unitCall.again = "piece"


(***************************************************************************)
(* sqliteStorage.lookupPrice (HomeScreen.tsx lines 2245-2268) with         *)
(* getDatabase (1720-1722) and ensurePricesTableColumns (1907-1973).  An   *)
(* item name is a token sequence; a row of the prices table is [item,      *)
(* price]; the promise resolves with out (<<>> is null) or rejects.        *)
(***************************************************************************)
PriceRows ==
    {[item |-> << "Rice" >>, price |-> 4500],
     [item |-> << "basmati", "rice" >>, price |-> 9000],
     [item |-> << "wheat" >>, price |-> 3000]}
LookupNames == {<< "rice" >>, << "Rice" >>, << "Basmati", "Rice" >>, << "sugar" >>}

\* WHERE LOWER(item) = LOWER(?)
RowsFound(catalog, item) == {r \in catalog : LowerText(r.item) = LowerText(item)}

PriceInit ==
    /\ priceCall \in
          [pc : {"start"}, item : LookupNames, catalog : SUBSET PriceRows,
           pricesTableColumnsEnsured : BOOLEAN, failure : {""}, out : {<< >>}]
    /\ text = << >> /\ caller = "none" /\ quickCapture = FALSE /\ clock = 0
    /\ pc = "idle" /\ items = << >> /\ lookups = << >> /\ enriched = << >>
    /\ result = << >> /\ ui = NoUi
    /\ unitCall = Idle /\ orderDb = Idle /\ storage = Idle /\ session = Idle

\* const db = getDatabase(), before the try: openDatabaseSync returns or throws
GetDatabase(ok) ==
    /\ priceCall.pc = "start"
    /\ priceCall' = IF ok THEN [priceCall EXCEPT !.pc = "ensure"]
                    ELSE [priceCall EXCEPT !.pc = "rejected", !.failure = "open"]
    /\ UNCHANGED <<parserVars, unitCall, orderDb, storage, session>>

\* await ensurePricesTableColumns(db): skipped once it has succeeded; its
\* error is rethrown into the catch of lookupPrice
EnsurePricesTableColumns(ok) ==
    /\ priceCall.pc = "ensure"
    /\ priceCall.pricesTableColumnsEnsured => ok
    /\ priceCall' = IF ok THEN [priceCall EXCEPT !.pc = "query", !.pricesTableColumnsEnsured = TRUE]
                    ELSE [priceCall EXCEPT !.pc = "resolved", !.failure = "columns"]
    /\ UNCHANGED <<parserVars, unitCall, orderDb, storage, session>>

\* await db.getFirstAsync(SELECT price ... LIMIT 1): one of the rows found,
\* null when there is none or when the query fails
GetFirstAsync(ok) ==
    /\ priceCall.pc = "query"
    /\ IF ok /\ RowsFound(priceCall.catalog, priceCall.item) # {}
       THEN \E r \in RowsFound(priceCall.catalog, priceCall.item) :
                priceCall' = [priceCall EXCEPT !.pc = "resolved", !.out = << r.price >>]
       ELSE priceCall' = [priceCall EXCEPT !.pc = "resolved",
                                           !.failure = IF ok THEN "" ELSE "query"]
    /\ UNCHANGED <<parserVars, unitCall, orderDb, storage, session>>

PriceNext ==
    \E ok \in BOOLEAN : GetDatabase(ok) \/ EnsurePricesTableColumns(ok) \/ GetFirstAsync(ok)

PriceSpec == PriceInit /\ [][PriceNext]_vars

\* a is a run of consecutive words of b
IsSubstring(a, b) == \E i \in 0..Len(b) - Len(a) : SubSeq(b, i + 1, i + Len(a)) = a
\* a case-insensitive exact or substring match of a looked-up name and a row
NameMatches(item, row) ==
    \/ IsSubstring(LowerText(item), LowerText(row.item))
    \/ IsSubstring(LowerText(row.item), LowerText(item))

\* C22: lookupPrice never rejects (a failure to open the database, to ensure
\* the columns or to run the query makes it resolve with null), and when
\* nothing fails it resolves with the price of a row whose name matches the
\* looked-up name exactly or as a substring, case-insensitively, and with
\* null exactly when no row matches.
C22_LookupPriceContract ==
    /\ priceCall.pc # "rejected"
    /\ priceCall.pc = "resolved" /\ priceCall.failure # "" => priceCall.out = << >>
    /\ priceCall.pc = "resolved" /\ priceCall.failure = "" =>
          IF \E r \in priceCall.catalog : NameMatches(priceCall.item, r)
          THEN \E r \in priceCall.catalog :
                  NameMatches(priceCall.item, r) /\ priceCall.out = << r.price >>
          ELSE priceCall.out = << >>


(***************************************************************************)
(* The rows of one order (sqliteStorage, HomeScreen.tsx lines 2687-3143).  *)
(* items[id] is "none" (no such row), "pending" (delivered = 0) or         *)
(* "delivered" (delivered = 1); ids are handed out in order and never      *)
(* reused.  last records the latest call: its name, the status before it   *)
(* and whether the item it names was a row of the order.  Every call runs  *)
(* to its end before the next one starts and no statement fails.           *)
(***************************************************************************)
ItemIds == 1..MaxOrderItems

\* COUNT(*) and SUM(CASE WHEN delivered = 1 THEN 1 ELSE 0 END) over the rows of
\* the order; SUM over no rows is NULL, written << >>
OrderStats(its) ==
    LET rows == {i \in ItemIds : its[i] # "none"} IN
    [total |-> Cardinality(rows),
     delivered |-> IF rows = {} THEN << >>
                   ELSE << Cardinality({i \in rows : its[i] = "delivered"}) >>]

\* newStatus of updateOrderStatus, which it writes whatever the status was
updateOrderStatus(its) ==
    LET stats == OrderStats(its) IN
    IF stats.delivered = << 0 >> THEN "open"
    ELSE IF stats.delivered = << stats.total >> THEN "delivered"
    ELSE "partial"

Called(op, found) == [op |-> op, before |-> orderDb.status, found |-> found]

\* createOrder: status 'open', every item inserted with delivered = 0
OrderInit ==
    /\ \E n \in 1..MaxOrderItems - 1 :
          orderDb = [status |-> "open",
                     items |-> [i \in ItemIds |-> IF i <= n THEN "pending" ELSE "none"],
                     nextId |-> n + 1,
                     last |-> [op |-> "createOrder", before |-> "open", found |-> TRUE]]
    /\ text = << >> /\ caller = "none" /\ quickCapture = FALSE /\ clock = 0
    /\ pc = "idle" /\ items = << >> /\ lookups = << >> /\ enriched = << >>
    /\ result = << >> /\ ui = NoUi
    /\ unitCall = Idle /\ priceCall = Idle /\ storage = Idle /\ session = Idle

UpdateOrderItemDelivery(itemId, delivered) ==
    LET found == orderDb.items[itemId] # "none"
        its == IF found
               THEN [orderDb.items EXCEPT ![itemId] = IF delivered THEN "delivered" ELSE "pending"]
               ELSE orderDb.items
    IN  /\ orderDb' = [orderDb EXCEPT
                          !.items = its,
                          !.status = IF found THEN updateOrderStatus(its) ELSE @,
                          !.last = Called("updateOrderItemDelivery", found)]
        /\ UNCHANGED <<parserVars, unitCall, priceCall, storage, session>>

DeleteOrderItem(itemId) ==
    LET found == orderDb.items[itemId] # "none"
        its == [orderDb.items EXCEPT ![itemId] = "none"]
    IN  /\ orderDb' = [orderDb EXCEPT
                          !.items = its,
                          !.status = IF found THEN updateOrderStatus(its) ELSE @,
                          !.last = Called("deleteOrderItem", found)]
        /\ UNCHANGED <<parserVars, unitCall, priceCall, storage, session>>

\* the row's item, qty, price or delivery_date change; orders.updated_at does
UpdateOrderItem(itemId) ==
    /\ orderDb' = [orderDb EXCEPT
                      !.last = Called("updateOrderItem", orderDb.items[itemId] # "none")]
    /\ UNCHANGED <<parserVars, unitCall, priceCall, storage, session>>

AddOrderItem ==
    /\ orderDb.nextId <= MaxOrderItems
    /\ orderDb' = [orderDb EXCEPT
                      !.items[orderDb.nextId] = "pending",
                      !.nextId = @ + 1,
                      !.last = Called("addOrderItem", TRUE)]
    /\ UNCHANGED <<parserVars, unitCall, priceCall, storage, session>>

UpdateOrderCustomer ==
    /\ orderDb' = [orderDb EXCEPT !.last = Called("updateOrderCustomer", TRUE)]
    /\ UNCHANGED <<parserVars, unitCall, priceCall, storage, session>>

DeliverEntireOrder ==
    /\ orderDb' = [orderDb EXCEPT
                      !.items = [i \in ItemIds |-> IF @[i] = "pending" THEN "delivered" ELSE @[i]],
                      !.status = "delivered",
                      !.last = Called("deliverEntireOrder", TRUE)]
    /\ UNCHANGED <<parserVars, unitCall, priceCall, storage, session>>

CancelOrder ==
    /\ orderDb' = [orderDb EXCEPT
                      !.items = [i \in ItemIds |-> IF @[i] = "delivered" THEN "pending" ELSE @[i]],
                      !.status = "cancelled",
                      !.last = Called("cancelOrder", TRUE)]
    /\ UNCHANGED <<parserVars, unitCall, priceCall, storage, session>>

OrderNext ==
    \/ \E itemId \in ItemIds, delivered \in BOOLEAN : UpdateOrderItemDelivery(itemId, delivered)
    \/ \E itemId \in ItemIds : DeleteOrderItem(itemId)
    \/ \E itemId \in ItemIds : UpdateOrderItem(itemId)
    \/ AddOrderItem
    \/ UpdateOrderCustomer
    \/ DeliverEntireOrder
    \/ CancelOrder

OrderSpec == OrderInit /\ [][OrderNext]_vars

\* the status an order has by the delivery of its items
StatusByItems(its) ==
    LET rows == {i \in ItemIds : its[i] # "none"}
        done == {i \in rows : its[i] = "delivered"}
    IN  IF done = {} THEN "open"
        ELSE IF done = rows THEN "delivered"
        ELSE "partial"

\* C28: after updateOrderItemDelivery or deleteOrderItem has completed on an
\* item of the order, the status of the order is 'open' when none of its items
\* is delivered (also when no item is left), 'delivered' when it has an item
\* and all are delivered, and 'partial' otherwise.
C28_StatusFollowsItems ==
    orderDb.last.op \in {"updateOrderItemDelivery", "deleteOrderItem"} /\ orderDb.last.found
        => orderDb.status = StatusByItems(orderDb.items)

\* C29: a call of updateOrderItemDelivery, deleteOrderItem, addOrderItem,
\* updateOrderItem or updateOrderCustomer on a cancelled order leaves it
\* cancelled.
C29_CancelledStays ==
    /\ orderDb.last.before = "cancelled"
    /\ orderDb.last.op \in {"updateOrderItemDelivery", "deleteOrderItem", "addOrderItem",
                           "updateOrderItem", "updateOrderCustomer"}
    => orderDb.status = "cancelled"


(***************************************************************************)
(* storage/index getStorage (part_001 lines 105-128) and the start-up of   *)
(* App (part_002 lines 93-152).  instance is the state of storageInstance: *)
(* "null", or the state of the initialize() of the object it holds:        *)
(* "created" (running), "ready" (completed) or "failed" (threw).  Every    *)
(* caller has one getStorage call: pc is its position and got the state of *)
(* the instance it resolved with.  app is App's screen.                    *)
(***************************************************************************)
StorageCallers == {"App", "HomeScreen", "useSpeechRecognition"}

StorageInit ==
    /\ storage = [instance |-> "null",
                  calls |-> [c \in StorageCallers |-> [pc |-> "idle", got |-> ""]],
                  app |-> "initializing",
                  retryCount |-> 0]
    /\ text = << >> /\ caller = "none" /\ quickCapture = FALSE /\ clock = 0
    /\ pc = "idle" /\ items = << >> /\ lookups = << >> /\ enriched = << >>
    /\ result = << >> /\ ui = NoUi
    /\ unitCall = Idle /\ priceCall = Idle /\ orderDb = Idle /\ session = Idle

\* getStorage up to its return or to await storageInstance.initialize()
GetStorage(c) ==
    /\ storage.calls[c].pc = "idle"
    /\ c = "App" => storage.app = "initializing"
    /\ storage' =
          IF storage.instance # "null"
          THEN [storage EXCEPT !.calls[c] = [pc |-> "resolved", got |-> storage.instance]]
          ELSE [storage EXCEPT !.instance = "created", !.calls[c].pc = "awaitInit"]
    /\ UNCHANGED <<parserVars, unitCall, priceCall, orderDb, session>>

\* initialize() completes or throws and getStorage resumes: return
\* storageInstance, or throw error
InitializeSettles(c, ok) ==
    /\ storage.calls[c].pc = "awaitInit"
    /\ storage' =
          IF ok
          THEN [storage EXCEPT !.instance = "ready",
                               !.calls[c] = [pc |-> "resolved", got |-> "ready"]]
          ELSE [storage EXCEPT !.instance = "failed", !.calls[c].pc = "rejected"]
    /\ UNCHANGED <<parserVars, unitCall, priceCall, orderDb, session>>

\* App.initialize after await getStorage(): setInitError and return, or go on
\* to the services and setIsInitializing(false)
AppResume ==
    /\ storage.app = "initializing"
    /\ storage.calls["App"].pc \in {"resolved", "rejected"}
    /\ storage' = [storage EXCEPT
                      !.app = IF storage.calls["App"].pc = "resolved" THEN "running" ELSE "error"]
    /\ UNCHANGED <<parserVars, unitCall, priceCall, orderDb, session>>

\* handleRetry: setRetryCount runs the effect, and initialize, again
HandleRetry ==
    /\ storage.app = "error"
    /\ storage.retryCount < MaxRetries
    /\ storage' = [storage EXCEPT !.app = "initializing", !.retryCount = @ + 1,
                                  !.calls["App"] = [pc |-> "idle", got |-> ""]]
    /\ UNCHANGED <<parserVars, unitCall, priceCall, orderDb, session>>

StorageNext ==
    \/ \E c \in StorageCallers : GetStorage(c)
    \/ \E c \in StorageCallers, ok \in BOOLEAN : InitializeSettles(c, ok)
    \/ AppResume
    \/ HandleRetry

StorageSpec == StorageInit /\ [][StorageNext]_vars

\* C30: every getStorage call that resolved got a storage instance whose
\* initialize() had completed successfully, and once App has left its
\* initializing screen for the application the storage is initialized.
C30_OnlyInitializedStorage ==
    /\ \A c \in StorageCallers :
          storage.calls[c].pc = "resolved" => storage.calls[c].got = "ready"
    /\ storage.app = "running" => storage.instance = "ready"


\* a final transcript that is a price command for the voice pipeline
PriceCommand == Len(text) > 0 /\ ~isCreditCommand(text) /\ Len(parsePriceSentence(text)) > 0

\* C24: a price command is always routed through review: with quick capture
\* on or off, processFinalTranscript makes no storage call for it, and when it
\* is done it has handed one 'price' or 'multi-price' payload to the review
\* callback, which has opened the price card of that type.
C24_PriceThroughReview ==
    caller = "voice" /\ PriceCommand =>
        /\ ui.saved = ""
        /\ pc = "done" =>
              /\ Len(ui.sent) = 1
              /\ ui.sent[1].type \in {"price", "multi-price"}
              /\ ui.card = ui.sent[1].type

\* "rice 20 and wheat 0.25 rs"-like command in quick mode: two prices reviewed
C24_Witness ==
    /\ caller = "voice" /\ quickCapture /\ PriceCommand /\ pc = "done"
    /\ Len(parsePriceSentence(text)) > 1
    /\ ui.card = "multi-price"
    /\ ui.saved = ""

\* C25: in processFinalTranscript the parseEnhanced call that follows the
\* credit check and the price check never returns type 'price' or 'credit':
\* the branches for these two types are unreachable.
C25_NoPriceOrCreditAfterChecks ==
    caller = "voice" /\ result # << >> /\ ~isCreditCommand(text) =>
        result[1].type \notin {"price", "credit"}

\* "rs" holds a price keyword and no price: parseEnhanced was called and
\* returned a transaction
C25_Witness ==
    /\ caller = "voice"
    /\ text = << "rs" >>
    /\ result # << >>
    /\ result[1].type = "transaction"

\* the kind of command the pipeline acted on, "" when it did nothing to see
ActedOn ==
    IF ui.sent # << >>
    THEN CASE ui.sent[1].type = "credit" -> "credit"
           [] ui.sent[1].type \in {"price", "multi-price"} -> "price"
           [] ui.sent[1].type = "order" -> "order"
           [] OTHER -> "transaction"
    ELSE IF ui.saved = "createOrder" \/ ui.toast = "Order detected but no handler available"
    THEN "order"
    ELSE IF ui.saved \in {"saveEntry", "saveEntriesBatch"} THEN "transaction"
    ELSE ""

\* C26: for every non-empty final transcript the kind of command
\* processFinalTranscript acts on (credit, price, order or transaction) is the
\* type parseEnhanced returns for the same text.
C26_ActsOnParseEnhancedType ==
    caller = "voice" /\ pc = "done" /\ Len(text) > 0 /\ ActedOn # "" =>
        ActedOn = parseEnhanced(text, clock, lookups).type


\* the price entry i of the batch has to carry: the parsed price, or the
\* positive price its own lookup resolved with
OwnPrice(i) ==
    IF items[i].price = 0 /\ lookups[i].st = "value" /\ lookups[i].val > 0
    THEN lookups[i].val
    ELSE items[i].price

\* C27: the lookups of one parseSentenceWithPriceLookup call are independent:
\* in whatever order they complete, the call resolves only after every lookup
\* has settled, its entries correspond one to one and in the same order to the
\* items of parseSentence, and each entry carries the price of its own item.
C27_LookupBatch ==
    enriched # << >> =>
        /\ Settled(lookups)
        /\ ~enriched[1].thrown
        /\ Len(enriched[1].entries) = Len(items)
        /\ \A i \in 1..Len(items) :
              /\ enriched[1].entries[i].item = items[i].item
              /\ enriched[1].entries[i].source_text = items[i].source_text
              /\ enriched[1].entries[i].price = OwnPrice(i)

\* two items were looked up, the first lookup resolved with null and the
\* second with a price: only the second entry is priced
C27_Witness ==
    /\ enriched # << >>
    /\ Len(items) = 2
    /\ lookups[1].st = "null"
    /\ lookups[2].st = "value"
    /\ enriched[1].entries[1].price = 0
    /\ enriched[1].entries[2].price = lookups[2].val


(***************************************************************************)
(* A session of parser calls: parseEnhanced and parseSentence are called   *)
(* one after the other on the same price store.  The parser module has no  *)
(* module-level variable (part_000 lines 57-91 are constant tables), so    *)
(* the state of a new call is that of a first call; what changes between   *)
(* calls is the text, the entry point and the reading of new Date().       *)
(* session.store is what lookupPrice settles to for the items, history the *)
(* calls made so far: text, caller, clock and what the call returned.      *)
(***************************************************************************)
SessionInit ==
    /\ text \in {<< "rice" >>, << "Credit", "Sales", "rice" >>, << "order", "rice" >>}
    /\ caller \in {"parseEnhanced", "parseSentence"}
    /\ quickCapture = FALSE
    /\ clock = 0
    /\ pc = "start"
    /\ items = << >> /\ lookups = << >> /\ enriched = << >> /\ result = << >>
    /\ ui = NoUi
    /\ session \in [store : Outcomes, history : {<< >>}]
    /\ unitCall = Idle /\ priceCall = Idle /\ orderDb = Idle /\ storage = Idle

\* what the finished call returned
Returned == << items, enriched, result >>

\* the call has returned and the next call is made at time now
CallAgain(t, c, now) ==
    /\ pc = "done"
    /\ Len(session.history) < MaxCalls - 1
    /\ session' = [session EXCEPT !.history =
                      Append(@, [text |-> text, caller |-> caller, clock |-> clock,
                                 out |-> Returned])]
    /\ text' = t
    /\ caller' = c
    /\ clock' = now
    /\ pc' = "start"
    /\ items' = << >> /\ lookups' = << >> /\ enriched' = << >> /\ result' = << >>
    /\ UNCHANGED <<quickCapture, ui, unitCall, priceCall, orderDb, storage>>

SessionNext ==
    \/ ParseSentenceCall
    \/ ParseEnhancedCall
    \/ \E i \in 1..MaxItems + 1 : LookupSettle(i, session.store)
    \/ CreditSaleResume
    \/ \E t \in {<< "rice" >>, << "Credit", "Sales", "rice" >>, << "order", "rice" >>},
          c \in {"parseEnhanced", "parseSentence"}, now \in {0, 1} : CallAgain(t, c, now)

SessionSpec == SessionInit /\ [][SessionNext]_vars

====
